---- MODULE Spec2Model ----
(***************************************************************************)
(* Verification model of the canister fuzzing framework's Wasm coverage    *)
(* instrumentation (canfuzz/src/instrumentation.rs and its predecessor     *)
(* canister_fuzzer/src/instrumentation.rs).                                *)
(*                                                                         *)
(* A Wasm module is a record of its sections.  Indices are 0-based as in   *)
(* Wasm; a TLA+ sequence position p holds index p - 1.  An instruction is  *)
(* a record [op, arg].  i32 values are held as non-negative integers; at   *)
(* every site of the injected code the operands are below 2^20, so i32     *)
(* addition never wraps there, and the one place where the width matters,  *)
(* i32.store8, truncates to 8 bits as the instruction does.                *)
(***************************************************************************)
EXTENDS Integers, Sequences, FiniteSets, TLC

VARIABLES
    pc,              \* position inside instrument_wasm_for_fuzzing
    args,            \* InstrumentationArgs of the running call
    module,          \* the wirm Module being rewritten (NoModule before parse)
    ids,             \* ids returned by the injection steps so far
    ret,             \* the Vec<u8> returned by the last call (NoBytes if none)
    COVERAGE_MAP,    \* the process-wide static: [alloc, len]
    ncalls,          \* calls of instrument_wasm_for_fuzzing started so far
    done,            \* what the caller kept of earlier calls: [args, ret]
    canister,        \* the installed, instrumented module (NoModule if none)
    gvals,           \* values of the installed canister's globals
    mem,             \* memory 0 of the installed canister, finite support
    reply,           \* reply of the last ingress call: [data, sent]
    calls,           \* arguments of all helper invocations so far
    last,            \* what the last canister step did
    canister_builder, \* the CanisterBuilder under construction (NoBuilder if none)
    fuzzer_builder,  \* the FuzzerBuilder: [name, canisters]
    fuzzer_state,    \* the FuzzerState: [name, state, canisters] (NoState if none)
    pocket_ics,      \* PocketIc instances created so far
    lookup,          \* what the last lookup on the FuzzerState returned
    SNAPSHOT,        \* the harness's static OnceCell: the two snapshot ids
    fuzz,            \* the fuzz loop of run(): position, input, observer, corpora
    mutator,         \* the CandidParserMutator (NoMutator if none)
    mutation         \* the input a mutation works on, and what the last call did

vars == <<pc, args, module, ids, ret, COVERAGE_MAP, ncalls, done,
          canister, gvals, mem, reply, calls, last,
          canister_builder, fuzzer_builder, fuzzer_state, pocket_ics, lookup,
          SNAPSHOT, fuzz, mutator, mutation>>

rewriterVars == <<pc, args, module, ids, ret, COVERAGE_MAP, ncalls, done>>
runtimeVars  == <<canister, gvals, mem, reply, calls, last>>
harnessVars  == <<canister_builder, fuzzer_builder, fuzzer_state, pocket_ics, lookup,
                   SNAPSHOT, fuzz, mutator, mutation>>

----------------------------------------------------------------------------
(* Program constants *)

AFL_COVERAGE_MAP_SIZE == 65536
API_VERSION_IC0 == "ic0"
ByteMod == 256

(* Bounds of the model *)

MaxHistory == 9      \* history_size is drawn from 0 .. MaxHistory
MaxCalls   == 2      \* calls of instrument_wasm_for_fuzzing per behaviour

NoModule == [none |-> TRUE]
NoBytes  == [nobytes |-> TRUE]
EmptyReply == [len |-> 0, bytes |-> <<>>, sent |-> FALSE]
NoIds    == [prev_loc |-> <<>>, mem_ptr |-> -1, data_append |-> -1,
             reply |-> -1, coverage_fn |-> -1, helper |-> -1, seed |-> -1]

----------------------------------------------------------------------------
(* Sequence helpers *)

Range(s) == {s[i] : i \in 1..Len(s)}

\* least element of a set of integers, 0 if the set is empty
MinOrZero(S) == IF S = {} THEN 0 ELSE CHOOSE i \in S : \A j \in S : i <= j

\* position of the first element of s equal to x, 0 if none
FirstPos(s, x) == MinOrZero({i \in 1..Len(s) : s[i] = x})

----------------------------------------------------------------------------
(* Instructions *)

Ins(o, a) == [op |-> o, arg |-> a]
I32Const(v)  == Ins("I32Const", v)
Call(f)      == Ins("Call", f)
GlobalGet(g) == Ins("GlobalGet", g)
GlobalSet(g) == Ins("GlobalSet", g)
LocalGet(l)  == Ins("LocalGet", l)
LocalTee(l)  == Ins("LocalTee", l)
I32Xor       == Ins("I32Xor", 0)
I32Add       == Ins("I32Add", 0)
I32ShrU      == Ins("I32ShrU", 0)
I32Load8U    == Ins("I32Load8U", 0)
I32Store8    == Ins("I32Store8", 0)
MemoryFill(m) == Ins("MemoryFill", m)
End          == Ins("End", 0)
Nop          == Ins("Nop", 0)
Block        == Ins("Block", 0)
Loop         == Ins("Loop", 0)
If           == Ins("If", 0)
Else         == Ins("Else", 0)
Br(d)        == Ins("Br", d)
BrIf(d)      == Ins("BrIf", d)
BrTable(d)   == Ins("BrTable", d)
Return       == Ins("Return", 0)

FuncType(p, r) == [params |-> p, results |-> r]

\* a global as wirm's add_global / the wat parser creates it
Global(ty, mutable, shared, init) ==
    [ty |-> ty, mutable |-> mutable, shared |-> shared, init |-> init]

ImportFunc(mod, name, ty) == [module |-> mod, name |-> name, kind |-> "func", ty |-> ty]

ImportedFn(ty, imp) == [kind |-> "Import", ty |-> ty, import |-> imp,
                        locals |-> <<>>, body |-> <<>>]
LocalFn(ty, locals, body) == [kind |-> "Local", ty |-> ty, import |-> -1,
                              locals |-> locals, body |-> body]

----------------------------------------------------------------------------
(* wirm Module API, as the rewriter uses it *)

\* Module::add_global: appends a local global; its id is the old global count
add_global(m, init, ty, mutable, shared) ==
    [module |-> [m EXCEPT !.globals = Append(@, Global(ty, mutable, shared, init))],
     id |-> Len(m.globals)]

\* ModuleTypes::add_func_type: the id of the type, added if absent
add_func_type(m, params, results) ==
    LET ty == FuncType(params, results)
        at == FirstPos(m.types, ty)
    IN  IF at > 0
        THEN [module |-> m, id |-> at - 1]
        ELSE [module |-> [m EXCEPT !.types = Append(@, ty)], id |-> Len(m.types)]

\* ModuleImports::get_func: the first function import (module, name) of the
\* import section; the FunctionID it yields is the import's position, -1 for
\* None
get_func(m, mod, name) ==
    LET at == MinOrZero({i \in 1..Len(m.imports) :
                 /\ m.imports[i].kind = "func"
                 /\ m.imports[i].module = mod
                 /\ m.imports[i].name = name})
    IN  at - 1

\* Module::add_import_func: appends the import and its function. The id it
\* returns is the number of functions the module has (with no local function
\* that is the import's final index; otherwise it is a provisional id that
\* encode resolves)
add_import_func(m, mod, name, ty) ==
    [module |-> [m EXCEPT !.imports = Append(@, ImportFunc(mod, name, ty)),
                          !.functions = Append(@, ImportedFn(ty, Len(m.imports)))],
     id |-> Len(m.functions)]

\* FunctionBuilder::new(params, results) ... finish_module: appends a local
\* function whose body ends with End, returns its id
finish_module(m, params, results, locals, body) ==
    LET t == add_func_type(m, params, results)
    IN  [module |-> [t.module EXCEPT
                        !.functions = Append(@, LocalFn(t.id, locals, body \o <<End>>))],
         id |-> Len(m.functions)]

\* ModuleExports::add_export_func
add_export_func(m, name, fid) ==
    [m EXCEPT !.exports = Append(@, [name |-> name, kind |-> "func", index |-> fid])]

----------------------------------------------------------------------------
(* The rewriter: canfuzz/src/instrumentation.rs *)

HistorySizes == {1, 2, 4, 8}

\* mutant: the assertion written as a range check
history_size_ok_range(h) == h \in 1..8

\* assert!(matches!(history_size, 1 | 2 | 4 | 8))
history_size_ok(h) == h \in HistorySizes

\* AFL_COVERAGE_MAP_SIZE * history_size as i32
MapBytes(h) == AFL_COVERAGE_MAP_SIZE * h

RECURSIVE add_prev_loc_globals(_, _, _)
add_prev_loc_globals(m, n, acc) ==
    IF n = 0 THEN [module |-> m, prev_loc |-> acc]
    ELSE LET g == add_global(m, <<I32Const(0)>>, "i32", TRUE, FALSE)
         IN  add_prev_loc_globals(g.module, n - 1, Append(acc, g.id))

\* mutant: mem_ptr created with the mutable flag of the prev_loc globals
inject_globals_mut_mem_ptr(m, history_size) ==
    LET p == add_prev_loc_globals(m, history_size, <<>>)
        q == add_global(p.module, <<I32Const(0)>>, "i32", TRUE, FALSE)
    IN  [module |-> q.module, prev_loc |-> p.prev_loc, mem_ptr |-> q.id]

inject_globals(m, history_size) ==
    LET p == add_prev_loc_globals(m, history_size, <<>>)
        q == add_global(p.module, <<I32Const(0)>>, "i32", FALSE, FALSE)
    IN  [module |-> q.module, prev_loc |-> p.prev_loc, mem_ptr |-> q.id]

\* mutant: msg_reply is imported whether or not it is there
ensure_ic0_imports_always_reply(m) ==
    LET d0 == get_func(m, API_VERSION_IC0, "msg_reply_data_append")
        t1 == add_func_type(m, <<"i32", "i32">>, <<>>)
        a1 == IF d0 = -1
              THEN add_import_func(t1.module, API_VERSION_IC0,
                                   "msg_reply_data_append", t1.id)
              ELSE [module |-> m, id |-> d0]
        t2 == add_func_type(a1.module, <<>>, <<>>)
        a2 == add_import_func(t2.module, API_VERSION_IC0, "msg_reply", t2.id)
    IN  [module |-> a2.module, data_append |-> a1.id, reply |-> a2.id]

ensure_ic0_imports(m) ==
    LET d0 == get_func(m, API_VERSION_IC0, "msg_reply_data_append")
        r0 == get_func(m, API_VERSION_IC0, "msg_reply")
        t1 == add_func_type(m, <<"i32", "i32">>, <<>>)
        a1 == IF d0 = -1
              THEN add_import_func(t1.module, API_VERSION_IC0,
                                   "msg_reply_data_append", t1.id)
              ELSE [module |-> m, id |-> d0]
        t2 == add_func_type(a1.module, <<>>, <<>>)
        a2 == IF r0 = -1
              THEN add_import_func(t2.module, API_VERSION_IC0, "msg_reply", t2.id)
              ELSE [module |-> a1.module, id |-> r0]
    IN  [module |-> a2.module, data_append |-> a1.id, reply |-> a2.id]

\* mutant: the region is cleared before it is appended to the reply
coverage_export_body_fill_first(history_size, afl_mem_ptr_idx, data_append_idx, reply_idx) ==
    << GlobalGet(afl_mem_ptr_idx),
       I32Const(0),
       I32Const(MapBytes(history_size)),
       MemoryFill(0),
       GlobalGet(afl_mem_ptr_idx),
       I32Const(MapBytes(history_size)),
       Call(data_append_idx),
       Call(reply_idx) >>

coverage_export_body(history_size, afl_mem_ptr_idx, data_append_idx, reply_idx) ==
    << GlobalGet(afl_mem_ptr_idx),
       I32Const(MapBytes(history_size)),
       Call(data_append_idx),
       Call(reply_idx),
       GlobalGet(afl_mem_ptr_idx),
       I32Const(0),
       I32Const(MapBytes(history_size)),
       MemoryFill(0) >>

CoverageExportName == "canister_update __export_coverage_for_afl"

inject_afl_coverage_export(m, history_size, afl_mem_ptr_idx) ==
    LET e == ensure_ic0_imports(m)
        f == finish_module(e.module, <<>>, <<>>, <<>>,
                 coverage_export_body(history_size, afl_mem_ptr_idx,
                                      e.data_append, e.reply))
    IN  [module |-> add_export_func(f.module, CoverageExportName, f.id),
         data_append |-> e.data_append, reply |-> e.reply, coverage_fn |-> f.id]

\* mutant: only the most recent location enters the key
RECURSIVE xor_prev_locs_first_only(_, _)
xor_prev_locs_first_only(prev, i) ==
    IF i > 1 THEN <<>>
    ELSE <<GlobalGet(prev[i]), I32Xor>> \o xor_prev_locs_first_only(prev, i + 1)

\* for &prev_loc_idx in afl_prev_loc_indices { global_get(prev_loc_idx).i32_xor() }
RECURSIVE xor_prev_locs(_, _)
xor_prev_locs(prev, i) ==
    IF i > Len(prev) THEN <<>>
    ELSE <<GlobalGet(prev[i]), I32Xor>> \o xor_prev_locs(prev, i + 1)

\* mutant: the history is shifted from the newest slot upwards
RECURSIVE shift_history_ascending(_, _)
shift_history_ascending(prev, i) ==
    IF i < 1 THEN <<>>
    ELSE shift_history_ascending(prev, i - 1)
         \o <<GlobalGet(prev[i]), I32Const(1), I32ShrU, GlobalSet(prev[i + 1])>>

\* for i in (1..len).rev() { prev_loc[i] = prev_loc[i - 1] >> 1 }; i is 0-based
RECURSIVE shift_history(_, _)
shift_history(prev, i) ==
    IF i < 1 THEN <<>>
    ELSE <<GlobalGet(prev[i]), I32Const(1), I32ShrU, GlobalSet(prev[i + 1])>>
         \o shift_history(prev, i - 1)

helper_body(afl_prev_loc_indices, afl_mem_ptr_idx) ==
    LET curr_location == 0
        afl_local_idx == 1
    IN  <<LocalGet(curr_location)>>
        \o xor_prev_locs(afl_prev_loc_indices, 1)
        \o << GlobalGet(afl_mem_ptr_idx), I32Add,
              LocalTee(afl_local_idx), LocalGet(afl_local_idx),
              I32Load8U, I32Const(1), I32Add, I32Store8 >>
        \o shift_history(afl_prev_loc_indices, Len(afl_prev_loc_indices) - 1)
        \o << LocalGet(curr_location), I32Const(1), I32ShrU,
              GlobalSet(afl_prev_loc_indices[1]) >>

afl_instrumentation_slice(m, afl_prev_loc_indices, afl_mem_ptr_idx) ==
    finish_module(m, <<"i32">>, <<>>, <<"i32">>,
                  helper_body(afl_prev_loc_indices, afl_mem_ptr_idx))

\* StdRng::seed_from_u64(seed) followed by the k-th random_range(0..range).
\* The generator is deterministic in (seed, k, range). Its first three values
\* for seed 42 and range 2 * 65536 are the ones the repository's tests pin;
\* elsewhere a fixed mixing function stands for the stream.
StdRngDraw(seed, range, k) ==
    IF seed = 42 /\ range = 131072 /\ k \in 1..3
    THEN <<17486, 69016, 32602>>[k]
    ELSE (((seed % 1009) * 7919 + k * 10007 + (k * k) * 31) * 37 + 11) % range

OpenOps   == {"Block", "Loop", "If", "Else"}
BranchOps == {"Br", "BrIf", "BrTable", "Return"}

create_instrumentation_ops_wide(seed, range, k, helper) ==
    << I32Const(StdRngDraw(seed, range * 2, k)), Call(helper) >>

\* the closure create_instrumentation_ops: one draw, two operators
create_instrumentation_ops(seed, range, k, helper) ==
    << I32Const(StdRngDraw(seed, range, k)), Call(helper) >>

\* mutant: the pair is placed in front of a control-opening operator
RECURSIVE instrument_body_before_open(_, _, _, _, _, _)
instrument_body_before_open(body, i, seed, range, helper, st) ==
    IF i > Len(body) THEN st
    ELSE LET ins  == body[i]
             pair == create_instrumentation_ops(seed, range, st.k + 1, helper)
         IN  IF ins.op \in OpenOps \cup BranchOps
             THEN instrument_body_before_open(body, i + 1, seed, range, helper,
                      [ops |-> st.ops \o pair \o <<ins>>, k |-> st.k + 1])
             ELSE instrument_body_before_open(body, i + 1, seed, range, helper,
                      [ops |-> Append(st.ops, ins), k |-> st.k])

\* the loop over one body; st = [ops, k], k = draws made so far
RECURSIVE instrument_body(_, _, _, _, _, _)
instrument_body(body, i, seed, range, helper, st) ==
    IF i > Len(body) THEN st
    ELSE LET ins  == body[i]
             pair == create_instrumentation_ops(seed, range, st.k + 1, helper)
         IN  IF ins.op \in OpenOps
             THEN instrument_body(body, i + 1, seed, range, helper,
                      [ops |-> st.ops \o <<ins>> \o pair, k |-> st.k + 1])
             ELSE IF ins.op \in BranchOps
             THEN instrument_body(body, i + 1, seed, range, helper,
                      [ops |-> st.ops \o pair \o <<ins>>, k |-> st.k + 1])
             ELSE instrument_body(body, i + 1, seed, range, helper,
                      [ops |-> Append(st.ops, ins), k |-> st.k])

\* mutant: the helper is not excluded
is_instrumented_any_local(fn, fi, helper) == fn.kind = "Local"

\* whether function index fi (0-based) is rewritten
is_instrumented(fn, fi, helper) == fn.kind = "Local" /\ fi # helper

\* the loop over module.functions; st = [fns, k]
RECURSIVE instrument_functions(_, _, _, _, _, _)
instrument_functions(fns, p, seed, range, helper, st) ==
    IF p > Len(fns) THEN st
    ELSE IF is_instrumented(fns[p], p - 1, helper)
    THEN LET entry == create_instrumentation_ops(seed, range, st.k + 1, helper)
             r == instrument_body(fns[p].body, 1, seed, range, helper,
                                  [ops |-> entry, k |-> st.k + 1])
         IN  instrument_functions(fns, p + 1, seed, range, helper,
                 [fns |-> Append(st.fns, [fns[p] EXCEPT !.body = r.ops]), k |-> r.k])
    ELSE instrument_functions(fns, p + 1, seed, range, helper,
             [fns |-> Append(st.fns, fns[p]), k |-> st.k])

\* seed is the resolved u32 (Seed::Static(s) => s, Seed::Random => next_u32())
instrument_branches(m, afl_prev_loc_indices, afl_mem_ptr_idx, seed) ==
    LET h == afl_instrumentation_slice(m, afl_prev_loc_indices, afl_mem_ptr_idx)
        r == instrument_functions(h.module.functions, 1, seed,
                 MapBytes(Len(afl_prev_loc_indices)), h.id, [fns |-> <<>>, k |-> 0])
    IN  [module |-> [h.module EXCEPT !.functions = r.fns], helper |-> h.id,
         draws |-> r.k]

----------------------------------------------------------------------------
(* Encoding and validation *)

NumImportedFns(m) == Cardinality({p \in 1..Len(m.functions) : m.functions[p].kind = "Import"})

\* wirm's encode puts imported functions first; the index function id fid
\* has in the encoded module
EncodedIndex(m, fid) ==
    LET before(kind) == Cardinality({p \in 1..fid : m.functions[p].kind = kind})
    IN  IF m.functions[fid + 1].kind = "Import"
        THEN before("Import")
        ELSE NumImportedFns(m) + before("Local")

\* the function id that ends at encoded index e
DecodedId(m, e) == CHOOSE fid \in 0..(Len(m.functions) - 1) : EncodedIndex(m, fid) = e

RemapIns(m, ins) == IF ins.op = "Call" THEN Call(EncodedIndex(m, ins.arg)) ELSE ins

\* Module::encode
encode(m) ==
    [m EXCEPT
       !.functions = [e \in 1..Len(m.functions) |->
                        LET f == m.functions[DecodedId(m, e - 1) + 1]
                        IN  [f EXCEPT !.body = [i \in 1..Len(f.body) |-> RemapIns(m, f.body[i])]]],
       !.exports = [x \in 1..Len(m.exports) |->
                        [m.exports[x] EXCEPT !.index = EncodedIndex(m, @)]]]

MemoryOps == {"I32Load8U", "I32Store8", "MemoryFill"}

\* operand-stack effect of one operator: <<values popped, values pushed>>
StackEffect(w, ins) ==
    CASE ins.op \in {"I32Const", "GlobalGet", "LocalGet"} -> <<0, 1>>
      [] ins.op \in {"GlobalSet", "If", "BrIf", "BrTable"} -> <<1, 0>>
      [] ins.op \in {"LocalTee", "I32Load8U"} -> <<1, 1>>
      [] ins.op \in {"I32Xor", "I32Add", "I32ShrU"} -> <<2, 1>>
      [] ins.op = "I32Store8" -> <<2, 0>>
      [] ins.op = "MemoryFill" -> <<3, 0>>
      [] ins.op = "Call" ->
            LET ty == w.types[w.functions[ins.arg + 1].ty + 1]
            IN  <<Len(ty.params), Len(ty.results)>>
      [] OTHER -> <<0, 0>>

\* one step of the validator's walk over a function body (all block types are
\* empty): st = [h: operand stack height, ctl: heights at which the open
\* frames started, dead: the rest of the frame is unreachable, ok]
check_op(w, body, i, st) ==
    IF ~st.ok THEN st
    ELSE LET ins  == body[i]
             eff  == StackEffect(w, ins)
             base == IF st.ctl = <<>> THEN 0 ELSE Head(st.ctl)
             fits == st.dead \/ st.h - base >= eff[1]
             h1   == IF st.dead THEN base ELSE st.h - eff[1] + eff[2]
         IN  IF ins.op = "Call" /\ ins.arg \notin 0..(Len(w.functions) - 1)
             THEN [st EXCEPT !.ok = FALSE]
             ELSE IF ins.op \in {"Block", "Loop"}
             THEN [st EXCEPT !.ctl = <<st.h>> \o @]
             ELSE IF ins.op = "If"
             THEN [st EXCEPT !.ok = fits, !.h = h1, !.ctl = <<h1>> \o @]
             ELSE IF ins.op = "Else"
             THEN [st EXCEPT !.ok = st.ctl # <<>> /\ (st.dead \/ st.h = base),
                             !.h = base, !.dead = FALSE]
             ELSE IF ins.op = "End"
             THEN [st EXCEPT !.ok = (st.dead \/ st.h = base)
                                    /\ (st.ctl = <<>> => i = Len(body)),
                             !.h = base, !.dead = FALSE,
                             !.ctl = IF @ = <<>> THEN @ ELSE Tail(@)]
             ELSE IF ins.op \in {"Br", "BrTable", "Return"}
             THEN [st EXCEPT !.ok = fits /\ (ins.op = "Return" \/ ins.arg <= Len(st.ctl)),
                             !.h = base, !.dead = TRUE]
             ELSE [st EXCEPT !.ok = fits /\ (ins.op = "BrIf" => ins.arg <= Len(st.ctl)),
                             !.h = h1]

\* the walk over body[lo..hi], each step on the finished state of the last
RECURSIVE check_body(_, _, _, _, _)
check_body(w, body, lo, hi, st) ==
    IF lo > hi THEN st
    ELSE IF lo = hi
    THEN CHOOSE r \in {check_op(w, body, lo, st)} : TRUE
    ELSE LET mid == (lo + hi) \div 2
         IN  CHOOSE r \in {check_body(w, body, mid + 1, hi, s) :
                             s \in {check_body(w, body, lo, mid, st)}} : TRUE

\* a local function's body leaves the operand stack as its () result type asks
body_valid(w, fn) ==
    /\ fn.body # <<>>
    /\ fn.body[Len(fn.body)].op = "End"
    /\ \E st \in {check_body(w, fn.body, 1, Len(fn.body),
                              [h |-> 0, ctl |-> <<>>, dead |-> FALSE, ok |-> TRUE])} :
          st.ok /\ st.ctl = <<>>


\* wasmparser::Validator::validate_all, for the index spaces the rewriter touches
validate_wasm(w) ==
    /\ \A p \in 1..Len(w.functions) : \A i \in 1..Len(w.functions[p].body) :
          LET ins == w.functions[p].body[i] IN
          /\ ins.op = "Call" => ins.arg \in 0..(Len(w.functions) - 1)
          /\ ins.op \in {"GlobalGet", "GlobalSet"} => ins.arg \in 0..(Len(w.globals) - 1)
          /\ ins.op = "GlobalSet" => w.globals[ins.arg + 1].mutable
          /\ ins.op \in MemoryOps => w.memories >= 1
    /\ \A x \in 1..Len(w.exports) :
          w.exports[x].kind = "func" => w.exports[x].index \in 0..(Len(w.functions) - 1)
    /\ \A p \in 1..Len(w.functions) :
          (w.functions[p].kind = "Import") = (p <= NumImportedFns(w))
    /\ \A p \in 1..Len(w.functions) :
          w.functions[p].kind = "Local" => body_valid(w, w.functions[p])

----------------------------------------------------------------------------
(* Input modules *)

MaxGlobals == 2
MaxRunHistory == 4

Garbage == [garbage |-> TRUE]

IcType(name) ==
    IF name = "msg_reply_data_append" THEN FuncType(<<"i32", "i32">>, <<>>)
    ELSE IF name = "msg_reply" THEN FuncType(<<>>, <<>>)
    ELSE FuncType(<<"i32">>, <<>>)

ImportChoices ==
    { <<>>, <<"dummy">>, <<"msg_reply_data_append">>, <<"msg_reply">>,
      <<"msg_reply_data_append", "msg_reply">>,
      <<"msg_reply", "dummy", "msg_reply_data_append">> }

RECURSIVE DistinctTypes(_, _)
DistinctTypes(tys, acc) ==
    IF tys = <<>> THEN acc
    ELSE DistinctTypes(Tail(tys),
             IF Head(tys) \in Range(acc) THEN acc ELSE Append(acc, Head(tys)))

TypeIndex(types, ty) == FirstPos(types, ty) - 1

\* the module Module::parse yields for: imports of ic0 functions `names`,
\* n globals, local functions () -> () with the given bodies, `memories`
\* memories
ParsedModule(names, n, bodies, memories) ==
    LET types == DistinctTypes([i \in 1..Len(names) |-> IcType(names[i])]
                                 \o (IF bodies = <<>> THEN <<>> ELSE <<FuncType(<<>>, <<>>)>>),
                               <<>>)
    IN  [types     |-> types,
         imports   |-> [i \in 1..Len(names) |->
                          ImportFunc(API_VERSION_IC0, names[i], TypeIndex(types, IcType(names[i])))],
         functions |-> [i \in 1..Len(names) |->
                          ImportedFn(TypeIndex(types, IcType(names[i])), i - 1)]
                       \o [j \in 1..Len(bodies) |->
                          LocalFn(TypeIndex(types, FuncType(<<>>, <<>>)), <<>>, bodies[j])],
         globals   |-> [g \in 1..n |->
                          Global(IF g % 2 = 1 THEN "i32" ELSE "i64", g % 2 = 1, FALSE,
                                 <<I32Const(g)>>)],
         memories  |-> memories,
         exports   |-> IF bodies = <<>> THEN <<>>
                       ELSE <<[name |-> "canister_update fuzz", kind |-> "func",
                               index |-> Len(names)]>>]

\* Module::parse: NoModule stands for the Err the caller's expect() panics on
parse(bytes) == IF bytes = Garbage THEN NoModule ELSE bytes

----------------------------------------------------------------------------
(* instrument_wasm_for_fuzzing, step by step *)

SeedStatic(s) == [kind |-> "Static", s |-> s]
SeedRandom    == [kind |-> "Random", s |-> 0]
SeedChoices   == {SeedStatic(42), SeedStatic(7), SeedRandom}
Entropy       == {42, 1234}        \* values rand::rng().next_u32() may return

InitialMap == [alloc |-> 0, len |-> AFL_COVERAGE_MAP_SIZE]

Panicked == {"panic_history", "panic_parse", "panic_validate"}

AssertHistory ==
    /\ pc = "assert"
    /\ pc' = IF history_size_ok(args.history_size) THEN "parse" ELSE "panic_history"
    /\ UNCHANGED <<args, module, ids, ret, COVERAGE_MAP, ncalls, done>>
    /\ UNCHANGED <<runtimeVars, harnessVars>>

Parse ==
    /\ pc = "parse"
    /\ module' = parse(args.wasm_bytes)
    /\ pc' = IF module' = NoModule THEN "panic_parse" ELSE "inject_globals"
    /\ UNCHANGED <<args, ids, ret, COVERAGE_MAP, ncalls, done>>
    /\ UNCHANGED <<runtimeVars, harnessVars>>

InjectGlobals ==
    /\ pc = "inject_globals"
    /\ LET r == inject_globals(module, args.history_size)
       IN  /\ module' = r.module
           /\ ids' = [ids EXCEPT !.prev_loc = r.prev_loc, !.mem_ptr = r.mem_ptr]
    /\ pc' = "inject_export"
    /\ UNCHANGED <<args, ret, COVERAGE_MAP, ncalls, done>>
    /\ UNCHANGED <<runtimeVars, harnessVars>>

InjectAflCoverageExport ==
    /\ pc = "inject_export"
    /\ LET r == inject_afl_coverage_export(module, args.history_size, ids.mem_ptr)
       IN  /\ module' = r.module
           /\ ids' = [ids EXCEPT !.data_append = r.data_append, !.reply = r.reply,
                                 !.coverage_fn = r.coverage_fn]
    /\ pc' = "instrument_branches"
    /\ UNCHANGED <<args, ret, COVERAGE_MAP, ncalls, done>>
    /\ UNCHANGED <<runtimeVars, harnessVars>>

\* mutant: the static seed is ignored
resolve_seed_entropy(seed, entropy) == entropy

\* the u32 the match on Seed yields
resolve_seed(seed, entropy) == IF seed.kind = "Static" THEN seed.s ELSE entropy

InstrumentBranches ==
    /\ pc = "instrument_branches"
    /\ \E e \in Entropy :
         LET s == resolve_seed(args.seed, e)
             r == instrument_branches(module, ids.prev_loc, ids.mem_ptr, s)
         IN  /\ module' = r.module
             /\ ids' = [ids EXCEPT !.helper = r.helper, !.seed = s]
    /\ pc' = "set_map"
    /\ UNCHANGED <<args, ret, COVERAGE_MAP, ncalls, done>>
    /\ UNCHANGED <<runtimeVars, harnessVars>>

\* COVERAGE_MAP = Box::leak(vec![0; AFL_COVERAGE_MAP_SIZE * history_size])
SetCoverageMap ==
    /\ pc = "set_map"
    /\ COVERAGE_MAP' = [alloc |-> COVERAGE_MAP.alloc + 1,
                        len |-> MapBytes(args.history_size)]
    /\ pc' = "encode"
    /\ UNCHANGED <<args, module, ids, ret, ncalls, done>>
    /\ UNCHANGED <<runtimeVars, harnessVars>>

EncodeValidateReturn ==
    /\ pc = "encode"
    /\ LET w == encode(module)
       IN  IF validate_wasm(w)
           THEN pc' = "returned" /\ ret' = w
           ELSE pc' = "panic_validate" /\ ret' = NoBytes
    /\ UNCHANGED <<args, module, ids, COVERAGE_MAP, ncalls, done>>
    /\ UNCHANGED <<runtimeVars, harnessVars>>

RewriteStep ==
    \/ AssertHistory
    \/ Parse
    \/ InjectGlobals
    \/ InjectAflCoverageExport
    \/ InstrumentBranches
    \/ SetCoverageMap
    \/ EncodeValidateReturn

----------------------------------------------------------------------------
(* Spec: calls of instrument_wasm_for_fuzzing on a family of modules *)

BodyNop    == <<Nop, End>>
BodyBlock  == <<Block, Nop, End, End>>
BodyIfElse == <<I32Const(0), If, Call(0), Else, Return, End, End>>

FuncChoices == { <<>>, <<BodyNop>>, <<BodyBlock, BodyIfElse>> }

\* a body that calls function 0 without arguments needs function 0 of type () -> ()
CallsTyped(names, bodies) ==
    (\E j \in 1..Len(bodies) : Call(0) \in Range(bodies[j]))
        => (names = <<>> \/ names[1] = "msg_reply")

InputModules ==
    { ParsedModule(t[1], t[2], t[3], t[4]) :
        t \in { u \in ImportChoices \X (0..MaxGlobals) \X FuncChoices \X {0, 1} :
                   CallsTyped(u[1], u[3]) } }

\* images of further canisters the caller instruments after the first
SupportModules ==
    { ParsedModule(<<>>, 0, <<BodyNop>>, 1),
      ParsedModule(<<"msg_reply">>, 1, <<BodyBlock, BodyIfElse>>, 1) }

ArgChoices ==
    [wasm_bytes : InputModules \cup {Garbage},
     history_size : 0..MaxHistory,
     seed : SeedChoices]

RuntimeIdle ==
    /\ canister = NoModule
    /\ gvals = <<>>
    /\ mem = <<>>
    /\ reply = EmptyReply
    /\ calls = <<>>
    /\ last = [kind |-> "none", trace |-> <<>>]

NoBuilder == [nobuilder |-> TRUE]
NoState == [nostate |-> TRUE]
NoLookup == [nolookup |-> TRUE]
NoSnapshot == [nosnapshot |-> TRUE]
NoFuzz == [nofuzz |-> TRUE]
NoMutator == [nomutator |-> TRUE]
NoMutation == [nomutation |-> TRUE]

\* no FuzzerState is being built or used
HarnessIdle ==
    /\ canister_builder = NoBuilder
    /\ fuzzer_builder = [name |-> "default_fuzzer", canisters |-> <<>>]
    /\ fuzzer_state = NoState
    /\ pocket_ics = 0
    /\ lookup = NoLookup
    /\ SNAPSHOT = NoSnapshot
    /\ fuzz = NoFuzz
    /\ mutator = NoMutator
    /\ mutation = NoMutation

Init ==
    /\ pc = "assert"
    /\ args \in ArgChoices
    /\ module = NoModule
    /\ ids = NoIds
    /\ ret = NoBytes
    /\ COVERAGE_MAP = InitialMap
    /\ ncalls = 1
    /\ done = <<>>
    /\ RuntimeIdle
    /\ HarnessIdle

\* the caller invokes instrument_wasm_for_fuzzing again (another canister)
StartCall ==
    /\ pc = "returned"
    /\ ncalls < MaxCalls
    /\ args' \in [wasm_bytes : SupportModules \cup {args.wasm_bytes, Garbage},
                 history_size : 0..MaxHistory,
                 seed : SeedChoices]
    /\ pc' = "assert"
    /\ module' = NoModule
    /\ ids' = NoIds
    /\ ret' = NoBytes
    /\ ncalls' = ncalls + 1
    /\ UNCHANGED <<COVERAGE_MAP, done>>
    /\ UNCHANGED <<runtimeVars, harnessVars>>

Next == RewriteStep \/ StartCall

Spec == Init /\ [][Next]_vars

----------------------------------------------------------------------------
(* SpecBranches: instrument_wasm_for_fuzzing run twice on the same           *)
(* arguments, on modules whose bodies hold every control operator            *)

MaxRuns == 2

BodyLoopBr      == <<Loop, Br(0), End, End>>
BodyBrIf        == <<Block, I32Const(1), BrIf(0), End, End>>
BodyBrTable     == <<Block, I32Const(0), BrTable(0), End, End>>
BodyNested      == <<Block, Loop, I32Const(0), If, Br(2), Else, Return, End, End, End, End>>
BodyReturnFirst == <<Return, End>>
BodyCallImport  == <<I32Const(3), Call(0), End>>

BranchModules ==
    { ParsedModule(<<>>, 0, <<>>, 1),
      ParsedModule(<<>>, 0, <<BodyNop>>, 1),
      ParsedModule(<<"msg_reply">>, 1, <<BodyBlock, BodyIfElse>>, 1),
      ParsedModule(<<>>, 0, <<BodyLoopBr, BodyBrIf>>, 1),
      ParsedModule(<<"dummy">>, 0, <<BodyCallImport, BodyBrTable>>, 1),
      ParsedModule(<<"msg_reply_data_append">>, 0, <<BodyNested, BodyReturnFirst>>, 1) }

InitBranches ==
    /\ pc = "assert"
    /\ args \in [wasm_bytes : BranchModules, history_size : HistorySizes,
                 seed : SeedChoices]
    /\ module = NoModule
    /\ ids = NoIds
    /\ ret = NoBytes
    /\ COVERAGE_MAP = InitialMap
    /\ ncalls = 1
    /\ done = <<>>
    /\ RuntimeIdle
    /\ HarnessIdle

\* the caller keeps the returned bytes and instruments the same arguments again
Rerun ==
    /\ pc = "returned"
    /\ Len(done) < MaxRuns - 1
    /\ done' = Append(done, [seed |-> ids.seed, ret |-> ret])
    /\ pc' = "assert"
    /\ module' = NoModule
    /\ ids' = NoIds
    /\ ret' = NoBytes
    /\ ncalls' = ncalls + 1
    /\ UNCHANGED <<args, COVERAGE_MAP>>
    /\ UNCHANGED <<runtimeVars, harnessVars>>

NextBranches == RewriteStep \/ Rerun

SpecBranches == InitBranches /\ [][NextBranches]_vars

----------------------------------------------------------------------------
(* SpecImports: ensure_ic0_imports of canfuzz and of canister_fuzzer, each   *)
(* called repeatedly on the module it returned                               *)

MaxEnsure == 2

MaxOrZero(S) == IF S = {} THEN 0 ELSE CHOOSE i \in S : \A j \in S : i >= j

\* canister_fuzzer add_func_type: the position of the type, pushed if absent
cf_add_func_type(m, ty) ==
    LET at == FirstPos(m.types, ty)
    IN  IF at > 0
        THEN [module |-> m, id |-> at - 1]
        ELSE [module |-> [m EXCEPT !.types = Append(@, ty)], id |-> Len(m.types)]

\* canister_fuzzer: module.imports.push(new_import), new_idx = imports.len()
\* before the push. The function index space is the imports followed by the
\* local functions, so the new import takes the index of the first local one.
cf_push_import(m, name, ty) ==
    LET n == Len(m.imports)
        imported == SubSeq(m.functions, 1, NumImportedFns(m))
        locals == SubSeq(m.functions, NumImportedFns(m) + 1, Len(m.functions))
    IN  [module |-> [m EXCEPT
                        !.imports = Append(@, ImportFunc(API_VERSION_IC0, name, ty)),
                        !.functions = imported \o <<ImportedFn(ty, n)>> \o locals],
         id |-> n]

\* the index the loop over module.imports leaves for `name`, -1 for None
cf_scan(m, name) ==
    MaxOrZero({i \in 1..Len(m.imports) :
                 m.imports[i].module = API_VERSION_IC0 /\ m.imports[i].name = name}) - 1

\* canister_fuzzer ensure_ic0_imports
cf_ensure_ic0_imports(m) ==
    LET d0 == cf_scan(m, "msg_reply_data_append")
        r0 == cf_scan(m, "msg_reply")
        t1 == cf_add_func_type(m, FuncType(<<"i32", "i32">>, <<>>))
        a1 == IF d0 = -1
              THEN cf_push_import(t1.module, "msg_reply_data_append", t1.id)
              ELSE [module |-> m, id |-> d0]
        t2 == cf_add_func_type(a1.module, FuncType(<<>>, <<>>))
        a2 == IF r0 = -1
              THEN cf_push_import(t2.module, "msg_reply", t2.id)
              ELSE [module |-> a1.module, id |-> r0]
    IN  [module |-> a2.module, data_append |-> a1.id, reply |-> a2.id]

ImportNames == {"msg_reply_data_append", "msg_reply", "dummy"}

\* import sections of ic0 functions, no name twice
ImportSections ==
    UNION { {q \in [1..n -> ImportNames] : \A i, j \in 1..n : q[i] = q[j] => i = j} :
              n \in 0..3 }

ImportModules ==
    { ParsedModule(names, 0, bodies, 1) :
        names \in ImportSections, bodies \in {<<>>, <<BodyNop>>} }

InitImports ==
    /\ pc \in {"canfuzz", "canister_fuzzer"}
    /\ module \in ImportModules
    /\ args = [wasm_bytes |-> module, history_size |-> 1, seed |-> SeedStatic(42)]
    /\ ids = NoIds
    /\ ret = NoBytes
    /\ COVERAGE_MAP = InitialMap
    /\ ncalls = 1
    /\ done = <<>>
    /\ RuntimeIdle
    /\ HarnessIdle

\* what a call of either ensure_ic0_imports leaves: the module, the two
\* indices, and a record of the call
Ensured(r) ==
    /\ module' = r.module
    /\ ids' = [ids EXCEPT !.data_append = r.data_append, !.reply = r.reply]
    /\ done' = Append(done, [module |-> module, data_append |-> r.data_append,
                             reply |-> r.reply])
    /\ UNCHANGED <<pc, args, ret, COVERAGE_MAP, ncalls>>
    /\ UNCHANGED <<runtimeVars, harnessVars>>

EnsureIc0Imports ==
    /\ pc = "canfuzz"
    /\ Len(done) < MaxEnsure
    /\ Ensured(ensure_ic0_imports(module))

CfEnsureIc0Imports ==
    /\ pc = "canister_fuzzer"
    /\ Len(done) < MaxEnsure
    /\ Ensured(cf_ensure_ic0_imports(module))

NextImports == EnsureIc0Imports \/ CfEnsureIc0Imports

SpecImports == InitImports /\ [][NextImports]_vars

----------------------------------------------------------------------------
(* SpecIndices: the whole rewrite of canfuzz and of canister_fuzzer on       *)
(* modules whose functions call and export each other                        *)

\* canister_fuzzer inject_globals: __afl_prev_loc (mutable) and __afl_mem_ptr
cf_inject_globals(m) ==
    LET prev == Len(m.globals)
        m1 == [m EXCEPT !.globals = Append(@, Global("i32", TRUE, FALSE, <<I32Const(0)>>))]
        ptr == Len(m1.globals)
        m2 == [m1 EXCEPT !.globals = Append(@, Global("i32", FALSE, FALSE, <<I32Const(0)>>))]
    IN  [module |-> m2, prev_loc |-> prev, mem_ptr |-> ptr]

CfCoverageExportName == "canister_query export_coverage"

\* canister_fuzzer inject_afl_coverage_export: the function is pushed after
\* the local functions and exported under imports.len() + functions.len() - 1
cf_inject_afl_coverage_export(m, afl_mem_ptr_idx) ==
    LET e == cf_ensure_ic0_imports(m)
        t == cf_add_func_type(e.module, FuncType(<<>>, <<>>))
        func_body == << GlobalGet(afl_mem_ptr_idx), I32Const(AFL_COVERAGE_MAP_SIZE),
                        Call(e.data_append), Call(e.reply), End >>
        m1 == [t.module EXCEPT !.functions = Append(@, LocalFn(t.id, <<>>, func_body))]
        new_func_index == Len(m1.imports) + (Len(m1.functions) - NumImportedFns(m1)) - 1
    IN  [module |-> [m1 EXCEPT !.exports =
                        Append(@, [name |-> CfCoverageExportName, kind |-> "func",
                                   index |-> new_func_index])],
         data_append |-> e.data_append, reply |-> e.reply, coverage_fn |-> new_func_index]

\* the k-th rng.gen_range(0..AFL_COVERAGE_MAP_SIZE) of a thread_rng that
\* started from `entropy`
cf_gen_range(entropy, k) == (entropy * 31 + k * 10007) % AFL_COVERAGE_MAP_SIZE

\* canister_fuzzer afl_instrumentation_slice: the inline counter update
cf_afl_instrumentation_slice(curr_location, afl_prev_loc_idx, afl_mem_ptr_idx, afl_local_idx) ==
    << I32Const(curr_location), GlobalGet(afl_prev_loc_idx), I32Xor,
       GlobalGet(afl_mem_ptr_idx), I32Add,
       LocalTee(afl_local_idx), LocalGet(afl_local_idx),
       I32Load8U, I32Const(1), I32Add, I32Store8,
       I32Const(curr_location \div 2), GlobalSet(afl_prev_loc_idx) >>

CfBranchOps == {"If", "Else", "Block", "Loop", "Br", "BrIf", "BrTable"}

\* the loop over one body's instructions; st = [ops, k], k = draws so far
RECURSIVE cf_instrument_body(_, _, _, _, _, _, _)
cf_instrument_body(body, i, entropy, prev, ptr, local, st) ==
    IF i > Len(body) THEN st
    ELSE IF body[i].op \in CfBranchOps
    THEN cf_instrument_body(body, i + 1, entropy, prev, ptr, local,
             [ops |-> st.ops
                      \o cf_afl_instrumentation_slice(cf_gen_range(entropy, st.k + 1),
                                                      prev, ptr, local)
                      \o <<body[i]>>,
              k |-> st.k + 1])
    ELSE cf_instrument_body(body, i + 1, entropy, prev, ptr, local,
             [ops |-> Append(st.ops, body[i]), k |-> st.k])

\* the loop over module.code_sections; st = [fns, k]
RECURSIVE cf_instrument_functions(_, _, _, _, _, _)
cf_instrument_functions(m, p, entropy, prev, ptr, st) ==
    IF p > Len(m.functions) THEN st
    ELSE LET fn == m.functions[p] IN
         IF fn.kind = "Local"
         THEN LET afl_local_idx == Len(m.types[fn.ty + 1].params) + Len(fn.locals)
                  entry == cf_afl_instrumentation_slice(cf_gen_range(entropy, st.k + 1),
                                                        prev, ptr, afl_local_idx)
                  r == cf_instrument_body(fn.body, 1, entropy, prev, ptr, afl_local_idx,
                                          [ops |-> entry, k |-> st.k + 1])
              IN  cf_instrument_functions(m, p + 1, entropy, prev, ptr,
                      [fns |-> Append(st.fns, [fn EXCEPT !.locals = Append(@, "i32"),
                                                         !.body = r.ops]),
                       k |-> r.k])
         ELSE cf_instrument_functions(m, p + 1, entropy, prev, ptr,
                  [fns |-> Append(st.fns, fn), k |-> st.k])

\* canister_fuzzer instrument_branches
cf_instrument_branches(m, afl_prev_loc_idx, afl_mem_ptr_idx, entropy) ==
    [m EXCEPT !.functions =
        cf_instrument_functions(m, 1, entropy, afl_prev_loc_idx, afl_mem_ptr_idx,
                                [fns |-> <<>>, k |-> 0]).fns]

\* ic_wasm_transform's Module::encode writes the sections as they are: the
\* function imports take the first function indices in import order, the code
\* sections follow, and no operand or export index is rewritten
IsImportSection(f) == f.kind = "Import"
IsCodeSection(f) == f.kind = "Local"
cf_encode(m) ==
    [m EXCEPT !.functions = SelectSeq(m.functions, IsImportSection)
                            \o SelectSeq(m.functions, IsCodeSection)]

\* an imported memory in front of the import section
MemoryImport == [module |-> "env", name |-> "memory", kind |-> "memory", ty |-> -1]

\* the module Module::parse yields for: an imported memory if asked for, imports
\* of ic0 functions `names`, and two local functions () -> (): the first,
\* exported as an update method, calls the second; the second, exported as a
\* query method, calls msg_reply if the module imports it
IndexModule(names, with_memory) ==
    LET n == Len(names)
        at == FirstPos(names, "msg_reply")
        first == <<Block, Call(n + 1), End, End>>
        second == IF at > 0 THEN <<Call(at - 1), End>> ELSE <<Nop, End>>
        m == ParsedModule(names, 0, <<first, second>>, 1)
        shift == IF with_memory THEN 1 ELSE 0
    IN  [m EXCEPT
           !.imports = (IF with_memory THEN <<MemoryImport>> ELSE <<>>) \o @,
           !.functions = [p \in 1..Len(m.functions) |->
                            IF m.functions[p].kind = "Import"
                            THEN [m.functions[p] EXCEPT !.import = @ + shift]
                            ELSE m.functions[p]],
           !.exports = @ \o <<[name |-> "canister_query get", kind |-> "func",
                               index |-> n + 1]>>]

IndexModules == {IndexModule(names, b) : names \in ImportSections, b \in BOOLEAN}

InitIndices ==
    /\ pc \in {"assert", "cf_parse"}
    /\ args \in [wasm_bytes : IndexModules, history_size : {1}, seed : {SeedStatic(42)}]
    /\ module = NoModule
    /\ ids = NoIds
    /\ ret = NoBytes
    /\ COVERAGE_MAP = InitialMap
    /\ ncalls = 1
    /\ done = <<>>
    /\ RuntimeIdle
    /\ HarnessIdle

CfParse ==
    /\ pc = "cf_parse"
    /\ module' = parse(args.wasm_bytes)
    /\ pc' = IF module' = NoModule THEN "panic_parse" ELSE "cf_inject_globals"
    /\ UNCHANGED <<args, ids, ret, COVERAGE_MAP, ncalls, done>>
    /\ UNCHANGED <<runtimeVars, harnessVars>>

CfInjectGlobals ==
    /\ pc = "cf_inject_globals"
    /\ LET r == cf_inject_globals(module)
       IN  /\ module' = r.module
           /\ ids' = [ids EXCEPT !.prev_loc = <<r.prev_loc>>, !.mem_ptr = r.mem_ptr]
    /\ pc' = "cf_inject_export"
    /\ UNCHANGED <<args, ret, COVERAGE_MAP, ncalls, done>>
    /\ UNCHANGED <<runtimeVars, harnessVars>>

CfInjectAflCoverageExport ==
    /\ pc = "cf_inject_export"
    /\ LET r == cf_inject_afl_coverage_export(module, ids.mem_ptr)
       IN  /\ module' = r.module
           /\ ids' = [ids EXCEPT !.data_append = r.data_append, !.reply = r.reply,
                                 !.coverage_fn = r.coverage_fn]
    /\ pc' = "cf_instrument_branches"
    /\ UNCHANGED <<args, ret, COVERAGE_MAP, ncalls, done>>
    /\ UNCHANGED <<runtimeVars, harnessVars>>

CfInstrumentBranches ==
    /\ pc = "cf_instrument_branches"
    /\ \E e \in Entropy :
         /\ module' = cf_instrument_branches(module, ids.prev_loc[1], ids.mem_ptr, e)
         /\ ids' = [ids EXCEPT !.seed = e]
    /\ pc' = "cf_encode"
    /\ UNCHANGED <<args, ret, COVERAGE_MAP, ncalls, done>>
    /\ UNCHANGED <<runtimeVars, harnessVars>>

CfEncodeValidateReturn ==
    /\ pc = "cf_encode"
    /\ LET w == cf_encode(module)
       IN  IF validate_wasm(w)
           THEN pc' = "cf_returned" /\ ret' = w
           ELSE pc' = "panic_validate" /\ ret' = NoBytes
    /\ UNCHANGED <<args, module, ids, COVERAGE_MAP, ncalls, done>>
    /\ UNCHANGED <<runtimeVars, harnessVars>>

CfRewriteStep ==
    \/ CfParse
    \/ CfInjectGlobals
    \/ CfInjectAflCoverageExport
    \/ CfInstrumentBranches
    \/ CfEncodeValidateReturn

NextIndices == RewriteStep \/ CfRewriteStep

SpecIndices == InitIndices /\ [][NextIndices]_vars

----------------------------------------------------------------------------
(* Execution of the instrumented canister: the Wasm instructions the        *)
(* rewriter emits, and the two ic0 calls of the coverage export             *)

\* bitwise xor of two non-negative i32 values
RECURSIVE XorBits(_, _)
XorBits(a, b) ==
    IF a = 0 THEN b
    ELSE IF b = 0 THEN a
    ELSE (((a % 2) + (b % 2)) % 2) + 2 * XorBits(a \div 2, b \div 2)

RECURSIVE Pow2(_)
Pow2(n) == IF n = 0 THEN 1 ELSE 2 * Pow2(n - 1)

\* memory 0 is held by its non-zero bytes
Load8(m, a) == IF a \in DOMAIN m THEN m[a] ELSE 0

\* mutant: the stored value is not truncated to a byte
Store8_wide(m, a, v) ==
    IF v = 0
    THEN [x \in (DOMAIN m) \ {a} |-> m[x]]
    ELSE [x \in (DOMAIN m) \cup {a} |-> IF x = a THEN v ELSE m[x]]

\* i32.store8: the low byte of v at address a
Store8(m, a, v) ==
    LET b == v % ByteMod
    IN  IF b = 0
        THEN [x \in (DOMAIN m) \ {a} |-> m[x]]
        ELSE [x \in (DOMAIN m) \cup {a} |-> IF x = a THEN b ELSE m[x]]

\* memory.fill d val n
Fill(m, d, val, n) ==
    LET b == val % ByteMod
        region == d..(d + n - 1)
    IN  IF b = 0
        THEN [x \in {y \in DOMAIN m : y \notin region} |-> m[x]]
        ELSE [x \in (DOMAIN m) \cup region |-> IF x \in region THEN b ELSE m[x]]

\* the bytes m[src .. src+size-1], re-based at offset `at`
Slice(m, src, size, at) ==
    [o \in {x - src + at : x \in {y \in DOMAIN m : y >= src /\ y < src + size}}
        |-> m[o - at + src]]

Overlay(f, g) == [x \in (DOMAIN f) \cup (DOMAIN g) |-> IF x \in DOMAIN g THEN g[x] ELSE f[x]]

Push(st, v) == [st EXCEPT !.stack = <<v>> \o @]
Pop(st, n)  == [st EXCEPT !.stack = SubSeq(@, n + 1, Len(@))]

\* an observable effect of an instruction: a store of val at addr, or a
\* transfer or fill of val bytes at addr
Ev(op, addr, val) == [op |-> op, addr |-> addr, val |-> val]

\* ic0.msg_reply_data_append(src, size) and ic0.msg_reply()
HostCall(name, st) ==
    IF name = "msg_reply_data_append"
    THEN LET size == st.stack[1]
             src  == st.stack[2]
         IN  [Pop(st, 2) EXCEPT
                 !.reply.bytes = Overlay(@, Slice(st.mem, src, size, st.reply.len)),
                 !.reply.len = @ + size,
                 !.trace = Append(@, Ev("msg_reply_data_append", src, size))]
    ELSE IF name = "msg_reply"
    THEN [st EXCEPT !.reply.sent = TRUE, !.trace = Append(@, Ev("msg_reply", 0, 0))]
    ELSE st

\* the element of the one-element set S
The(S) == CHOOSE s \in S : TRUE

RECURSIVE Run(_, _, _, _, _)
RECURSIVE Exec(_, _, _)
\* one instruction of module w on state st
Exec(w, ins, st) ==
    LET s1 == st.stack
    IN  CASE ins.op = "I32Const" -> Push(st, ins.arg)
          [] ins.op = "LocalGet" -> Push(st, st.locals[ins.arg + 1])
          [] ins.op = "LocalTee" -> [st EXCEPT !.locals[ins.arg + 1] = s1[1]]
          [] ins.op = "GlobalGet" -> Push(st, st.gvals[ins.arg + 1])
          [] ins.op = "GlobalSet" -> [Pop(st, 1) EXCEPT !.gvals[ins.arg + 1] = s1[1]]
          [] ins.op = "I32Xor" -> Push(Pop(st, 2), XorBits(s1[2], s1[1]))
          [] ins.op = "I32Add" -> Push(Pop(st, 2), s1[2] + s1[1])
          [] ins.op = "I32ShrU" -> Push(Pop(st, 2), s1[2] \div Pow2(s1[1] % 32))
          [] ins.op = "I32Load8U" -> Push(Pop(st, 1), Load8(st.mem, s1[1]))
          [] ins.op = "I32Store8" ->
                [Pop(st, 2) EXCEPT !.mem = Store8(@, s1[2], s1[1]),
                                   !.trace = Append(@, Ev("i32.store8", s1[2], s1[1]))]
          [] ins.op = "MemoryFill" ->
                [Pop(st, 3) EXCEPT !.mem = Fill(@, s1[3], s1[2], s1[1]),
                                   !.trace = Append(@, Ev("memory.fill", s1[3], s1[1]))]
          [] ins.op = "Call" ->
                LET f == w.functions[ins.arg + 1]
                    np == Len(w.types[f.ty + 1].params)
                IN  IF f.kind = "Import"
                    THEN HostCall(w.imports[f.import + 1].name, st)
                    ELSE LET params == [q \in 1..np |-> s1[np - q + 1]]
                             inner == Run(w, f.body, 1, Len(f.body),
                                          [Pop(st, np) EXCEPT
                                             !.locals = params \o [q \in 1..Len(f.locals) |-> 0],
                                             !.calls = Append(@, [fn |-> ins.arg,
                                                                  params |-> params])])
                         IN  [inner EXCEPT !.locals = st.locals]
          [] OTHER -> st                    \* Nop, Block, Loop, End

\* one function activation: the straight-line instructions body[lo..hi] of
\* module w on state st, in order (the sequence is split in halves, and the
\* state after the first half is computed before the second half starts)
Run(w, body, lo, hi, st) ==
    IF lo > hi THEN st
    ELSE IF lo = hi THEN Exec(w, body[lo], st)
    ELSE LET mid == (lo + hi) \div 2
         IN  The({Run(w, body, mid + 1, hi, s) : s \in {Run(w, body, lo, mid, st)}})

\* the index an export name designates, -1 if none
ExportIndex(w, name) ==
    LET at == MinOrZero({x \in 1..Len(w.exports) : w.exports[x].name = name})
    IN  IF at = 0 THEN -1 ELSE w.exports[at].index

\* an ingress message to the exported function `name`
Invoke(w, name, g, m) ==
    LET f == w.functions[ExportIndex(w, name) + 1]
    IN  Run(w, f.body, 1, Len(f.body),
            [stack |-> <<>>, locals |-> [q \in 1..Len(f.locals) |-> 0],
             gvals |-> g, mem |-> m, reply |-> EmptyReply, calls |-> <<>>,
             trace |-> <<>>])

\* instrument_for_afl followed by encode, for a resolved seed
instrument_for_afl(m, history_size, seed) ==
    LET g == inject_globals(m, history_size)
        x == inject_afl_coverage_export(g.module, history_size, g.mem_ptr)
        b == instrument_branches(x.module, g.prev_loc, g.mem_ptr, seed)
    IN  [module |-> b.module,
         ids |-> [prev_loc |-> g.prev_loc, mem_ptr |-> g.mem_ptr,
                  data_append |-> x.data_append, reply |-> x.reply,
                  coverage_fn |-> x.coverage_fn, helper |-> b.helper, seed |-> seed]]

\* the last n elements of s
LastN(s, n) == IF Len(s) <= n THEN s ELSE SubSeq(s, Len(s) - n + 1, Len(s))

FuzzExportName == "canister_update fuzz"

\* the first arguments of the calls to function `helper` among cs
RECURSIVE HelperArgs(_, _)
HelperArgs(cs, helper) ==
    IF cs = <<>> THEN <<>>
    ELSE (IF Head(cs).fn = helper THEN <<Head(cs).params[1]>> ELSE <<>>)
         \o HelperArgs(Tail(cs), helper)

\* an update call to the canister's own method
IngressFuzz ==
    /\ canister # NoModule
    /\ \E st \in {Invoke(canister, FuzzExportName, gvals, mem)} :
           /\ gvals' = st.gvals
           /\ mem' = st.mem
           /\ reply' = st.reply
           /\ calls' = LastN(calls \o HelperArgs(st.calls, EncodedIndex(module, ids.helper)),
                             Len(ids.prev_loc))
           /\ last' = [kind |-> "fuzz", trace |-> st.trace]
    /\ UNCHANGED canister
    /\ UNCHANGED <<rewriterVars, harnessVars>>

\* the update call `__export_coverage_for_afl` the fuzzer makes after each input
IngressCoverage ==
    /\ canister # NoModule
    /\ \E st \in {Invoke(canister, CoverageExportName, gvals, mem)} :
           /\ gvals' = st.gvals
           /\ mem' = st.mem
           /\ reply' = st.reply
           /\ calls' = LastN(calls \o HelperArgs(st.calls, EncodedIndex(module, ids.helper)),
                             Len(ids.prev_loc))
           /\ last' = [kind |-> "coverage", trace |-> st.trace]
    /\ UNCHANGED canister
    /\ UNCHANGED <<rewriterVars, harnessVars>>

\* the canister under test: one method, one instrumentation site, and an
\* ic0.msg_reply import of its own
RunModules == { ParsedModule(<<"msg_reply">>, 1, <<BodyNop>>, 1) }

\* the history sizes the execution is explored for
RunHistories == {h \in HistorySizes : h <= MaxRunHistory}

\* the state after instrument_wasm_for_fuzzing returned and the image was
\* installed: globals hold their initialisers, memory is zero
InitRun ==
    /\ args \in [wasm_bytes : RunModules, history_size : RunHistories,
                 seed : {SeedStatic(42)}]
    /\ LET r == instrument_for_afl(parse(args.wasm_bytes), args.history_size,
                                   resolve_seed(args.seed, 0))
       IN  /\ module = r.module
           /\ ids = r.ids
           /\ ret = encode(r.module)
    /\ pc = "returned"
    /\ COVERAGE_MAP = [alloc |-> 1, len |-> MapBytes(args.history_size)]
    /\ ncalls = 1
    /\ done = <<>>
    /\ canister = ret
    /\ gvals = [g \in 1..Len(ret.globals) |-> ret.globals[g].init[1].arg]
    /\ mem = <<>>
    /\ reply = EmptyReply
    /\ calls = <<>>
    /\ last = [kind |-> "install", trace |-> <<>>]
    /\ HarnessIdle

NextRun == IngressFuzz \/ IngressCoverage

SpecRun == InitRun /\ [][NextRun]_vars

----------------------------------------------------------------------------
(* SpecHistory: the instrumented canister under every history size, for a   *)
(* bounded number of calls                                                  *)

MaxIngress == 9       \* update calls the fuzzer makes to one canister

InitHistory ==
    /\ args \in [wasm_bytes : RunModules, history_size : HistorySizes,
                 seed : {SeedStatic(42)}]
    /\ LET r == instrument_for_afl(parse(args.wasm_bytes), args.history_size,
                                   resolve_seed(args.seed, 0))
       IN  /\ module = r.module
           /\ ids = r.ids
           /\ ret = encode(r.module)
    /\ pc = "returned"
    /\ COVERAGE_MAP = [alloc |-> 1, len |-> MapBytes(args.history_size)]
    /\ ncalls = 1
    /\ done = <<>>
    /\ canister = ret
    /\ gvals = [g \in 1..Len(ret.globals) |-> ret.globals[g].init[1].arg]
    /\ mem = <<>>
    /\ reply = EmptyReply
    /\ calls = <<>>
    /\ last = [kind |-> "install", trace |-> <<>>]
    /\ canister_builder = NoBuilder
    /\ fuzzer_builder = [name |-> "default_fuzzer", canisters |-> <<>>]
    /\ fuzzer_state = NoState
    /\ pocket_ics = 0
    /\ lookup = NoLookup
    /\ SNAPSHOT = NoSnapshot
    /\ fuzz = [iter |-> 0]
    /\ mutator = NoMutator
    /\ mutation = NoMutation

\* one update call of the export `name`, counted
Ingress(name, kind) ==
    /\ fuzz.iter < MaxIngress
    /\ \E st \in {Invoke(canister, name, gvals, mem)} :
           /\ gvals' = st.gvals
           /\ mem' = st.mem
           /\ reply' = st.reply
           /\ calls' = LastN(calls \o HelperArgs(st.calls, EncodedIndex(module, ids.helper)),
                             Len(ids.prev_loc))
           /\ last' = [kind |-> kind, trace |-> st.trace]
    /\ fuzz' = [iter |-> fuzz.iter + 1]
    /\ UNCHANGED canister
    /\ UNCHANGED rewriterVars
    /\ UNCHANGED <<canister_builder, fuzzer_builder, fuzzer_state, pocket_ics,
                   lookup, SNAPSHOT, mutator, mutation>>

HistoryFuzz == Ingress(FuzzExportName, "fuzz")
HistoryCoverage == Ingress(CoverageExportName, "coverage")

NextHistory == HistoryFuzz \/ HistoryCoverage

SpecHistory == InitHistory /\ [][NextHistory]_vars

----------------------------------------------------------------------------
(* SpecRegistry: CanisterBuilder, FuzzerBuilder and FuzzerState of           *)
(* canfuzz/src/fuzzer.rs, and the init of the trap_after_await harness       *)

MaxCanisters == 2        \* canisters a FuzzerBuilder is given
MaxRoleCalls == 2        \* as_coverage / as_support calls on one CanisterBuilder
MaxSetups    == 2        \* setup_canisters calls on one PocketIc, PocketIc instances

Coverage == "Coverage"
Support  == "Support"

NoPath == [kind |-> "None", at |-> ""]
NoId   == -1
NoPic  == [nopic |-> TRUE]

CanisterNames == {"ledger", "transfer"}

\* the file system and environment read_canister_bytes sees
Environment == [v \in {"LEDGER_WASM_PATH", "TRANSFER_WASM_PATH"} |->
                  IF v = "LEDGER_WASM_PATH" THEN "ledger.wasm" ELSE "transfer.wasm"]
Files == [f \in {"ledger.wasm", "transfer.wasm"} |->
            IF f = "ledger.wasm"
            THEN ParsedModule(<<"msg_reply">>, 0, <<BodyNop>>, 1)
            ELSE ParsedModule(<<"msg_reply_data_append", "msg_reply">>, 1, <<BodyBlock>>, 1)]

WasmFileOf(name) == IF name = "ledger" THEN "ledger.wasm" ELSE "transfer.wasm"
WasmEnvOf(name) == IF name = "ledger" THEN "LEDGER_WASM_PATH" ELSE "TRANSFER_WASM_PATH"

\* util::read_canister_bytes
read_canister_bytes(wasm_path) ==
    Files[IF wasm_path.kind = "EnvVar" THEN Environment[wasm_path.at] ELSE wasm_path.at]

\* mutant: at least one coverage canister is enough
coverage_count_ok_some(canisters) ==
    Cardinality({k \in 1..Len(canisters) : canisters[k].ty = Coverage}) >= 1

\* the assertion of FuzzerState::new
coverage_count_ok(canisters) ==
    Cardinality({k \in 1..Len(canisters) : canisters[k].ty = Coverage}) = 1

\* PocketIc, as far as the harness uses it: canister ids are handed out in
\* order, each instance starting from the same first id
PocketIcNew(n) == [instance |-> n, time |-> 0, canisters |-> <<>>, queue |-> <<>>,
                   log |-> <<>>]

\* a canister's state, as far as the harness observes it: a balance, and the
\* edges its coverage map has counted together with the executions they are from
NoData == [balance |-> 0, cov |-> {}, from |-> {}]

EmptyCanister == [cycles |-> <<>>, module |-> NoModule, init_args |-> <<>>,
                  data |-> NoData, snapshots |-> <<>>]

Logged(pic, ev) == [pic EXCEPT !.log = Append(@, ev)]

create_canister(pic) ==
    [pic |-> Logged([pic EXCEPT !.canisters = Append(@, EmptyCanister)],
                    <<"create_canister", Len(pic.canisters)>>),
     id |-> Len(pic.canisters)]

add_cycles(pic, id, amount) ==
    Logged([pic EXCEPT !.canisters[id + 1].cycles = Append(@, amount)],
           <<"add_cycles", id>>)

install_canister(pic, id, wasm, init_args) ==
    Logged([pic EXCEPT !.canisters[id + 1].module = wasm,
                       !.canisters[id + 1].init_args = init_args,
                       !.canisters[id + 1].data = NoData],
           <<"install_canister", id>>)

\* an update call whose execution leaves the canister's state as `data`
update_call(pic, id, data) ==
    Logged([pic EXCEPT !.canisters[id + 1].data = data], <<"update_call", id>>)

take_canister_snapshot(pic, id) ==
    [pic |-> Logged([pic EXCEPT !.canisters[id + 1].snapshots =
                                   Append(@, pic.canisters[id + 1].data)],
                    <<"take_canister_snapshot", id>>),
     id |-> Len(pic.canisters[id + 1].snapshots)]

\* one pass of the loop of setup_canisters, over the entry `info`
setup_canister(pic, info) ==
    CHOOSE r \in
      {[pic |-> Logged(install_canister(
                         Logged(add_cycles(c.pic, c.id, "20_000_000_000_000"),
                                <<"read_canister_bytes", c.id>>),
                         c.id, read_canister_bytes(info.wasm_path), info.init_args),
                       <<"set_id", c.id>>),
        info |-> [info EXCEPT !.id = c.id]] : c \in {create_canister(pic)}} : TRUE

\* the loop of setup_canisters: st = [pic, canisters]
RECURSIVE setup_loop(_, _)
setup_loop(st, k) ==
    IF k > Len(st.canisters) THEN st
    ELSE CHOOSE q \in
           {setup_loop([pic |-> r.pic, canisters |-> [st.canisters EXCEPT ![k] = r.info]],
                       k + 1) : r \in {setup_canister(st.pic, st.canisters[k])}} : TRUE

\* instrument_wasm_for_fuzzing on arguments it accepts: the returned bytes
instrument_wasm_for_fuzzing(a, entropy) ==
    encode(instrument_for_afl(parse(a.wasm_bytes), a.history_size,
                              resolve_seed(a.seed, entropy)).module)

FindByName(canisters, name) ==
    MinOrZero({k \in 1..Len(canisters) : canisters[k].name = name})

FindCoverage(canisters) ==
    MinOrZero({k \in 1..Len(canisters) : canisters[k].ty = Coverage})

InitRegistry ==
    /\ pc = "builder"
    /\ args = [wasm_bytes |-> NoBytes, history_size |-> 8, seed |-> SeedRandom]
    /\ module = NoModule
    /\ ids = NoIds
    /\ ret = NoBytes
    /\ COVERAGE_MAP = InitialMap
    /\ ncalls = 0
    /\ done = <<>>
    /\ RuntimeIdle
    /\ HarnessIdle

BuilderIdle == IF canister_builder = NoBuilder THEN TRUE ELSE canister_builder.built

UnchangedRewriter == UNCHANGED <<args, module, ids, ret, COVERAGE_MAP, ncalls, done>>

\* CanisterBuilder::new(name)
CanisterBuilderNew ==
    /\ pc = "builder"
    /\ BuilderIdle
    /\ Len(fuzzer_builder.canisters) < MaxCanisters
    /\ \E name \in CanisterNames :
         canister_builder' = [name |-> name, wasm_path |-> NoPath, ty |-> Support,
                              init_args |-> <<>>, role_calls |-> <<>>, built |-> FALSE]
    /\ UNCHANGED <<pc, fuzzer_builder, fuzzer_state, pocket_ics, lookup, SNAPSHOT, fuzz, mutator, mutation>>
    /\ UnchangedRewriter
    /\ UNCHANGED runtimeVars

BuilderStep(b) ==
    /\ pc = "builder"
    /\ ~BuilderIdle
    /\ canister_builder' = b
    /\ UNCHANGED <<pc, fuzzer_builder, fuzzer_state, pocket_ics, lookup, SNAPSHOT, fuzz, mutator, mutation>>
    /\ UnchangedRewriter
    /\ UNCHANGED runtimeVars

WithWasmPath ==
    BuilderStep([canister_builder EXCEPT
                   !.wasm_path = [kind |-> "Path", at |-> WasmFileOf(canister_builder.name)]])

WithWasmEnv ==
    BuilderStep([canister_builder EXCEPT
                   !.wasm_path = [kind |-> "EnvVar", at |-> WasmEnvOf(canister_builder.name)]])

\* with_init_args(Some(args)); with_init_args(None) leaves the empty default
WithInitArgs ==
    /\ canister_builder # NoBuilder
    /\ canister_builder.init_args = <<>>
    /\ BuilderStep([canister_builder EXCEPT !.init_args = <<1>>])

AsCoverage ==
    /\ canister_builder # NoBuilder
    /\ Len(canister_builder.role_calls) < MaxRoleCalls
    /\ BuilderStep([canister_builder EXCEPT !.ty = Coverage,
                                            !.role_calls = Append(@, "as_coverage")])

AsSupport ==
    /\ canister_builder # NoBuilder
    /\ Len(canister_builder.role_calls) < MaxRoleCalls
    /\ BuilderStep([canister_builder EXCEPT !.ty = Support,
                                            !.role_calls = Append(@, "as_support")])

\* with_canister(canister_builder.build())
WithCanister ==
    /\ pc = "builder"
    /\ ~BuilderIdle
    /\ IF canister_builder.wasm_path = NoPath
       THEN /\ pc' = "panic_wasm_path"
            /\ UNCHANGED <<canister_builder, fuzzer_builder>>
       ELSE /\ fuzzer_builder' =
                  [fuzzer_builder EXCEPT !.canisters =
                      Append(@, [id |-> NoId, name |-> canister_builder.name,
                                 wasm_path |-> canister_builder.wasm_path,
                                 ty |-> canister_builder.ty,
                                 init_args |-> canister_builder.init_args])]
            /\ canister_builder' = [canister_builder EXCEPT !.built = TRUE]
            /\ pc' = pc
    /\ UNCHANGED <<fuzzer_state, pocket_ics, lookup, SNAPSHOT, fuzz, mutator, mutation>>
    /\ UnchangedRewriter
    /\ UNCHANGED runtimeVars

\* FuzzerBuilder::build, which is FuzzerState::new(name, canisters)
FuzzerBuild ==
    /\ pc = "builder"
    /\ BuilderIdle
    /\ IF coverage_count_ok(fuzzer_builder.canisters)
       THEN /\ fuzzer_state' = [name |-> fuzzer_builder.name, state |-> NoPic,
                                canisters |-> fuzzer_builder.canisters]
            /\ pc' = "built"
       ELSE /\ pc' = "panic_coverage"
            /\ UNCHANGED fuzzer_state
    /\ UNCHANGED <<canister_builder, fuzzer_builder, pocket_ics, lookup, SNAPSHOT, fuzz, mutator, mutation>>
    /\ UnchangedRewriter
    /\ UNCHANGED runtimeVars

\* FuzzerState::init_state(PocketIc::new())
InitState ==
    /\ pc = "built"
    /\ pocket_ics < MaxSetups
    /\ pocket_ics' = pocket_ics + 1
    /\ fuzzer_state' = [fuzzer_state EXCEPT !.state = PocketIcNew(pocket_ics + 1)]
    /\ UNCHANGED <<pc, canister_builder, fuzzer_builder, lookup, SNAPSHOT, fuzz, mutator, mutation>>
    /\ UnchangedRewriter
    /\ UNCHANGED runtimeVars

\* FuzzerState::setup_canisters
SetupCanisters ==
    /\ pc = "built"
    /\ IF fuzzer_state.state = NoPic
       THEN pocket_ics < MaxSetups
       ELSE Len(fuzzer_state.state.canisters) < MaxSetups * Len(fuzzer_state.canisters)
    /\ \E r \in {setup_loop([pic |-> IF fuzzer_state.state = NoPic
                                        THEN PocketIcNew(pocket_ics + 1)
                                        ELSE fuzzer_state.state,
                                canisters |-> fuzzer_state.canisters], 1)} :
         fuzzer_state' = [fuzzer_state EXCEPT !.state = r.pic, !.canisters = r.canisters]
    /\ pocket_ics' = IF fuzzer_state.state = NoPic THEN pocket_ics + 1 ELSE pocket_ics
    /\ UNCHANGED <<pc, canister_builder, fuzzer_builder, lookup, SNAPSHOT, fuzz, mutator, mutation>>
    /\ UnchangedRewriter
    /\ UNCHANGED runtimeVars

\* FuzzerState::get_canister_id_by_name
GetCanisterIdByName ==
    /\ pc = "built"
    /\ \E name \in CanisterNames :
         LET k == FindByName(fuzzer_state.canisters, name)
         IN  IF k = 0 \/ fuzzer_state.canisters[k].id = NoId
             THEN pc' = "panic_lookup" /\ lookup' = [name |-> name, id |-> NoId]
             ELSE pc' = pc /\ lookup' = [name |-> name, id |-> fuzzer_state.canisters[k].id]
    /\ UNCHANGED <<canister_builder, fuzzer_builder, fuzzer_state, pocket_ics, SNAPSHOT, fuzz, mutator, mutation>>
    /\ UnchangedRewriter
    /\ UNCHANGED runtimeVars

\* the registry main() of trap_after_await builds
IsTrapAfterAwaitRegistry ==
    /\ Len(fuzzer_state.canisters) = 2
    /\ fuzzer_state.canisters[1].name = "ledger"
    /\ fuzzer_state.canisters[1].ty = Support
    /\ fuzzer_state.canisters[2].name = "transfer"
    /\ fuzzer_state.canisters[2].ty = Coverage

\* TrapAfterAwaitFuzzer::init
init ==
    /\ pc = "built"
    /\ IsTrapAfterAwaitRegistry
    /\ pocket_ics < MaxSetups
    /\ SNAPSHOT = NoSnapshot
    /\ \E e \in Entropy :
       \E l \in {create_canister(PocketIcNew(pocket_ics + 1))} :
       \E p2 \in {install_canister(
                     Logged(add_cycles(l.pic, l.id, "u128::MAX / 2"),
                            <<"read_canister_bytes", l.id>>),
                     l.id, read_canister_bytes(fuzzer_state.canisters[1].wasm_path),
                     <<>>)} :
       \E t \in {create_canister(p2)} :
       \E a \in {[wasm_bytes |-> read_canister_bytes(fuzzer_state.canisters[2].wasm_path),
                   history_size |-> 8, seed |-> SeedRandom]} :
       \E tmodule \in {instrument_wasm_for_fuzzing(a, e)} :
       \E p4 \in {install_canister(
                     Logged(add_cycles(t.pic, t.id, "u128::MAX / 2"),
                            <<"read_canister_bytes", t.id>>),
                     t.id, tmodule, <<l.id>>)} :
       \E p5 \in {Logged(Logged(p4, <<"set_id", l.id>>), <<"set_id", t.id>>)} :
       \E p6 \in {update_call(p5, t.id, [balance |-> 1, cov |-> {0}, from |-> {0}])} :
       \E p7 \in {update_call(p6, l.id, [balance |-> 1, cov |-> {}, from |-> {}])} :
       \E s1 \in {take_canister_snapshot(p7, t.id)} :
       \E s2 \in {take_canister_snapshot(s1.pic, l.id)} :
             /\ args' = a
             /\ ret' = tmodule
             /\ COVERAGE_MAP' = [alloc |-> COVERAGE_MAP.alloc + 1,
                                 len |-> MapBytes(a.history_size)]
             /\ ncalls' = ncalls + 1
             /\ fuzzer_state' = [fuzzer_state EXCEPT
                                   !.state = s2.pic,
                                   !.canisters[1].id = l.id,
                                   !.canisters[2].id = t.id]
             /\ SNAPSHOT' = <<s1.id, s2.id>>
    /\ pocket_ics' = pocket_ics + 1
    /\ UNCHANGED <<pc, module, ids, done, canister_builder, fuzzer_builder, lookup,
                    mutator, mutation>>
    /\ UNCHANGED runtimeVars

\* the harness's init, called outside run()
TrapAfterAwaitInit ==
    /\ init
    /\ UNCHANGED fuzz

NextRegistry ==
    \/ CanisterBuilderNew
    \/ WithWasmPath
    \/ WithWasmEnv
    \/ WithInitArgs
    \/ AsCoverage
    \/ AsSupport
    \/ WithCanister
    \/ FuzzerBuild
    \/ InitState
    \/ SetupCanisters
    \/ GetCanisterIdByName
    \/ TrapAfterAwaitInit

SpecRegistry == InitRegistry /\ [][NextRegistry]_vars

----------------------------------------------------------------------------
(* SpecLoop: run() of canister_fuzzer/src/orchestrator.rs driving the        *)
(* trap_after_await harness                                                  *)

MaxIters == 3            \* inputs run() evaluates

Inputs == {0, 1}         \* the inputs the seed files and the mutator yield

\* the edges the coverage canister counts while it executes an input
EdgesOf(input) == IF input = 0 THEN {1} ELSE {1, 2}

ExitKindOk      == "Ok"
ExitKindCrash   == "Crash"
ExitKindOom     == "Oom"
ExitKindTimeout == "Timeout"

\* pocket_ic::ErrorCode, the codes the mapping names and three others
ErrorCodes == {"CanisterTrapped", "CanisterCalledTrap",
               "CanisterMemoryAccessLimitExceeded", "InsufficientMemoryAllocation",
               "CanisterOutOfMemory", "CanisterWasmMemoryLimitExceeded",
               "CanisterInstructionLimitExceeded",
               "CanisterNotFound", "CanisterMethodNotFound", "CanisterOutOfCycles"}

NoResult == [ok |-> FALSE, error_code |-> "NoResult"]

\* Result<Vec<u8>, RejectResponse>
Results == {[ok |-> TRUE, error_code |-> "None"]}
             \cup {[ok |-> FALSE, error_code |-> c] : c \in ErrorCodes}

\* mutant: an exceeded instruction limit is not told apart from other errors
parse_canister_result_for_trap_no_timeout(result) ==
    IF result.ok THEN ExitKindOk
    ELSE IF result.error_code \in {"CanisterTrapped", "CanisterCalledTrap"}
         THEN ExitKindCrash
    ELSE IF result.error_code \in {"CanisterMemoryAccessLimitExceeded",
                                   "InsufficientMemoryAllocation",
                                   "CanisterOutOfMemory",
                                   "CanisterWasmMemoryLimitExceeded"}
         THEN ExitKindOom
    ELSE ExitKindOk

\* util::parse_canister_result_for_trap
parse_canister_result_for_trap(result) ==
    IF result.ok THEN ExitKindOk
    ELSE IF result.error_code \in {"CanisterTrapped", "CanisterCalledTrap"}
         THEN ExitKindCrash
    ELSE IF result.error_code \in {"CanisterMemoryAccessLimitExceeded",
                                   "InsufficientMemoryAllocation",
                                   "CanisterOutOfMemory",
                                   "CanisterWasmMemoryLimitExceeded"}
         THEN ExitKindOom
    ELSE IF result.error_code = "CanisterInstructionLimitExceeded"
         THEN ExitKindTimeout
    ELSE ExitKindOk

\* CrashFeedback::new(): the objective run() constructs
objective_is_interesting(exit_kind) == exit_kind = ExitKindCrash

\* the observer's map: the edges it holds, the executions they were counted in,
\* and the iteration in which it was read from the canister (0: not read)
EmptyMap == [edges |-> {}, from |-> {}, read |-> 0]

\* mutant: the observer keeps its map from one execution to the next
pre_exec_keep(map) == map

\* HitcountsMapObserver::pre_exec, which resets the map
pre_exec(map) == EmptyMap

load_canister_snapshot(pic, id, snapshot_id) ==
    Logged([pic EXCEPT !.canisters[id + 1].data =
                          pic.canisters[id + 1].snapshots[snapshot_id + 1]],
           <<"load_canister_snapshot", id>>)

submit_call(pic, id, method) ==
    Logged([pic EXCEPT !.queue = Append(@, <<id, method>>)], <<"submit_call", id>>)

\* a round: the queued messages are executed, leaving the canisters' states as given
tick(pic, t, l, tdata, ldata) ==
    Logged([pic EXCEPT !.queue = <<>>,
                       !.canisters[t + 1].data = tdata,
                       !.canisters[l + 1].data = ldata],
           <<"tick", Len(pic.queue)>>)

advance_time(pic, secs) == Logged([pic EXCEPT !.time = @ + secs], <<"advance_time", secs>>)

\* what an execution can see of the state machine
SimState(pic) ==
    [time |-> pic.time, queue |-> pic.queue,
     data |-> [k \in 1..Len(pic.canisters) |-> pic.canisters[k].data]]

LedgerInfo ==
    [id |-> NoId, name |-> "ledger",
     wasm_path |-> [kind |-> "EnvVar", at |-> "LEDGER_WASM_PATH"],
     ty |-> Support, init_args |-> <<>>]

TransferInfo ==
    [id |-> NoId, name |-> "transfer",
     wasm_path |-> [kind |-> "EnvVar", at |-> "TRANSFER_WASM_PATH"],
     ty |-> Coverage, init_args |-> <<>>]

\* the state main() hands to run()
InitLoop ==
    /\ pc = "built"
    /\ args = [wasm_bytes |-> NoBytes, history_size |-> 8, seed |-> SeedRandom]
    /\ module = NoModule
    /\ ids = NoIds
    /\ ret = NoBytes
    /\ COVERAGE_MAP = InitialMap
    /\ ncalls = 0
    /\ done = <<>>
    /\ RuntimeIdle
    /\ canister_builder = [name |-> "transfer", wasm_path |-> TransferInfo.wasm_path,
                           ty |-> Coverage, init_args |-> <<>>,
                           role_calls |-> <<"as_coverage">>, built |-> TRUE]
    /\ fuzzer_builder = [name |-> "trap_after_await",
                         canisters |-> <<LedgerInfo, TransferInfo>>]
    /\ fuzzer_state = [name |-> "trap_after_await", state |-> NoPic,
                       canisters |-> <<LedgerInfo, TransferInfo>>]
    /\ pocket_ics = 0
    /\ lookup = NoLookup
    /\ SNAPSHOT = NoSnapshot
    /\ fuzz = NoFuzz
    /\ mutator = NoMutator
    /\ mutation = NoMutation

UnchangedHarness ==
    UNCHANGED <<pc, args, module, ids, ret, COVERAGE_MAP, ncalls, done,
                canister_builder, fuzzer_builder, pocket_ics, lookup, SNAPSHOT,
                mutator, mutation>>

CoverageId == fuzzer_state.canisters[FindCoverage(fuzzer_state.canisters)].id
LedgerId == fuzzer_state.canisters[FindByName(fuzzer_state.canisters, "ledger")].id

\* run(): orchestrator.init(), then the observer, feedback, objective, corpora
RunInit ==
    /\ fuzz = NoFuzz
    /\ init
    /\ fuzz' = [at |-> "next", iter |-> 0, input |-> 0, result |-> NoResult,
                exit_kind |-> ExitKindOk, map |-> EmptyMap, seen |-> {},
                corpus |-> {}, solutions |-> {}, promoted |-> FALSE, in_flight |-> 0,
                evaluated |-> EmptyMap, order |-> <<>>,
                baseline |-> SimState(fuzzer_state'.state)]

\* evaluate_input / the mutational stage hand the next input to the executor,
\* whose observers run pre_exec
NextInput ==
    /\ fuzz # NoFuzz
    /\ fuzz.at = "next"
    /\ fuzz.iter < MaxIters
    /\ \E input \in Inputs :
         fuzz' = [fuzz EXCEPT !.at = "setup", !.iter = @ + 1, !.input = input,
                              !.result = NoResult, !.exit_kind = ExitKindOk,
                              !.map = pre_exec(fuzz.map), !.in_flight = @ + 1,
                              !.promoted = FALSE,
                              !.order = <<>>]
    /\ UNCHANGED fuzzer_state
    /\ UnchangedHarness
    /\ UNCHANGED runtimeVars

\* TrapAfterAwaitFuzzer::setup
HarnessSetup ==
    /\ fuzz # NoFuzz
    /\ fuzz.at = "setup"
    /\ \E p1 \in {load_canister_snapshot(fuzzer_state.state, CoverageId, SNAPSHOT[1])} :
         fuzzer_state' = [fuzzer_state EXCEPT
                            !.state = load_canister_snapshot(p1, LedgerId, SNAPSHOT[2])]
    /\ fuzz' = [fuzz EXCEPT !.at = "execute", !.order = Append(@, "setup")]
    /\ UnchangedHarness
    /\ UNCHANGED runtimeVars

\* the coverage canister's state after it has executed the input
Executed(data, balance) ==
    [balance |-> balance, cov |-> data.cov \cup EdgesOf(fuzz.input),
     from |-> data.from \cup {fuzz.iter}]

\* TrapAfterAwaitFuzzer::execute
Execute ==
    /\ fuzz # NoFuzz
    /\ fuzz.at = "execute"
    /\ \E b1 \in 0..1, b2 \in 0..1 :
       \E p1 \in {submit_call(submit_call(fuzzer_state.state, CoverageId, "refund_balance"),
                              CoverageId, "refund_balance")} :
       \E p2 \in {tick(p1, CoverageId, LedgerId,
                       Executed(p1.canisters[CoverageId + 1].data, 1),
                       p1.canisters[LedgerId + 1].data)} :
       \E p3 \in {tick(submit_call(p2, CoverageId, "refund_balance"), CoverageId, LedgerId,
                       Executed(p2.canisters[CoverageId + 1].data, b1),
                       [p2.canisters[LedgerId + 1].data EXCEPT !.balance = b2])} :
         IF b1 # b2
         THEN /\ fuzzer_state' = [fuzzer_state EXCEPT !.state = p3]
              /\ fuzz' = [fuzz EXCEPT !.at = "set_coverage_map",
                                      !.exit_kind = ExitKindCrash,
                                      !.order = Append(@, "execute")]
         ELSE /\ fuzzer_state' = [fuzzer_state EXCEPT !.state = advance_time(p3, 60)]
              /\ fuzz' = [fuzz EXCEPT !.at = "set_coverage_map",
                                      !.exit_kind = ExitKindOk,
                                      !.order = Append(@, "execute")]
    /\ UnchangedHarness
    /\ UNCHANGED runtimeVars

\* an execute that calls the coverage canister with the input and classifies the
\* simulator's answer with parse_canister_result_for_trap
ExecuteIngress ==
    /\ fuzz # NoFuzz
    /\ fuzz.at = "execute"
    /\ \E result \in Results :
         /\ fuzzer_state' =
              [fuzzer_state EXCEPT !.state =
                 update_call(fuzzer_state.state, CoverageId,
                             Executed(fuzzer_state.state.canisters[CoverageId + 1].data,
                                      fuzzer_state.state.canisters[CoverageId + 1].data.balance))]
         /\ fuzz' = [fuzz EXCEPT !.at = "set_coverage_map", !.result = result,
                                 !.exit_kind = parse_canister_result_for_trap(result),
                                 !.order = Append(@, "execute")]
    /\ UnchangedHarness
    /\ UNCHANGED runtimeVars

\* set_coverage_map: call the coverage export and, if it replied, copy the reply
\* into the observer's map; the export clears the canister's map
HarnessSetCoverageMap ==
    /\ fuzz # NoFuzz
    /\ fuzz.at = "set_coverage_map"
    /\ \E replied \in BOOLEAN :
         IF replied
         THEN /\ fuzz' = [fuzz EXCEPT
                            !.at = "cleanup",
                            !.map = [edges |-> fuzzer_state.state.canisters[CoverageId + 1].data.cov,
                                     from |-> fuzzer_state.state.canisters[CoverageId + 1].data.from,
                                     read |-> fuzz.iter],
                            !.order = Append(@, "set_coverage_map")]
              /\ fuzzer_state' =
                   [fuzzer_state EXCEPT !.state =
                      update_call(fuzzer_state.state, CoverageId,
                                  [fuzzer_state.state.canisters[CoverageId + 1].data
                                     EXCEPT !.cov = {}, !.from = {}])]
         ELSE /\ fuzz' = [fuzz EXCEPT !.at = "cleanup",
                                      !.order = Append(@, "set_coverage_map")]
              /\ UNCHANGED fuzzer_state
    /\ UnchangedHarness
    /\ UNCHANGED runtimeVars

\* cleanup (the default does nothing); the harness closure returns
Cleanup ==
    /\ fuzz # NoFuzz
    /\ fuzz.at = "cleanup"
    /\ fuzz' = [fuzz EXCEPT !.at = "objective", !.in_flight = @ - 1,
                            !.order = Append(@, "cleanup")]
    /\ UNCHANGED fuzzer_state
    /\ UnchangedHarness
    /\ UNCHANGED runtimeVars

\* StdFuzzer: the objective decides on the exit kind
Objective ==
    /\ fuzz # NoFuzz
    /\ fuzz.at = "objective"
    /\ fuzz' = IF objective_is_interesting(fuzz.exit_kind)
               THEN [fuzz EXCEPT !.at = "next", !.solutions = @ \cup {fuzz.input},
                                 !.promoted = TRUE,
                                 !.order = Append(@, "objective")]
               ELSE [fuzz EXCEPT !.at = "feedback", !.order = Append(@, "objective")]
    /\ UNCHANGED fuzzer_state
    /\ UnchangedHarness
    /\ UNCHANGED runtimeVars

\* StdFuzzer: the map feedback decides on the observer's map
Feedback ==
    /\ fuzz # NoFuzz
    /\ fuzz.at = "feedback"
    /\ fuzz' = [fuzz EXCEPT
                  !.at = "next",
                  !.evaluated = fuzz.map,
                  !.seen = @ \cup fuzz.map.edges,
                  !.corpus = IF fuzz.map.edges \subseteq fuzz.seen THEN @
                             ELSE @ \cup {fuzz.input},
                  !.order = Append(@, "feedback")]
    /\ UNCHANGED fuzzer_state
    /\ UnchangedHarness
    /\ UNCHANGED runtimeVars

NextLoop ==
    \/ RunInit
    \/ NextInput
    \/ HarnessSetup
    \/ Execute
    \/ ExecuteIngress
    \/ HarnessSetCoverageMap
    \/ Cleanup
    \/ Objective
    \/ Feedback

SpecLoop == InitLoop /\ [][NextLoop]_vars

----------------------------------------------------------------------------
(* The Candid-aware mutator: IDLValue, Type, and the per-kind mutations     *)

\* a call that returned x, and a call that unwound with a panic
Ret(x) == [out |-> x]
Panic == [panic |-> TRUE]
Outs(S) == {o.out : o \in S \ {Panic}}

WordBits  == 16       \* width standing in for the 64-bit constants of the mutators
MaxDepth  == 20       \* mutate_value returns at once when depth exceeds it
RandomNat == {0, 2, 5}          \* values drawn for rng.random::<u128>()
RandomInt == {0 - 3, 0, 4}      \* values drawn for rng.random::<i128>()
RandomBytes == {0, 4, 255}      \* values drawn for rng.random::<u8>()
MaxPrincipal == 2     \* bytes of a random principal (the program: 1 ..= 29)

U64_MAX == Pow2(WordBits) - 1
I64_MAX == Pow2(WordBits - 1) - 1
I64_MIN == 0 - Pow2(WordBits - 1)

\* naughty_strings::BLNS, by two of its entries: an ASCII one and one that
\* holds a two-byte character
BLNS == {<<65>>, <<195, 169>>}

\* IDLValue
Bool(b)      == [k |-> "Bool", b |-> b]
Null         == [k |-> "Null"]
NoneV        == [k |-> "None"]
Reserved     == [k |-> "Reserved"]
Text(s)      == [k |-> "Text", s |-> s]
Number(s)    == [k |-> "Number", s |-> s]
IntV(n)      == [k |-> "Int", n |-> n]
NatV(n)      == [k |-> "Nat", n |-> n]
Prim(kind, n) == [k |-> kind, n |-> n]
Float64(c)   == [k |-> "Float64", cls |-> c]
Vec(items)   == [k |-> "Vec", items |-> items]
Blob(bytes)  == [k |-> "Blob", s |-> bytes]
PrincipalV(bytes) == [k |-> "Principal", s |-> bytes]
Record(fields) == [k |-> "Record", fields |-> fields]
Variant(id, val, idx) == [k |-> "Variant", id |-> id, val |-> val, idx |-> idx]
Opt(val)     == [k |-> "Opt", val |-> val]
Service(bytes) == [k |-> "Service", s |-> bytes]
Func(bytes, method) == [k |-> "Func", s |-> bytes, method |-> method]
IDLField(id, val) == [id |-> id, val |-> val]

\* Type (TypeInner), a Field of a record or variant type, and the TypeEnv
Ty(name)       == [t |-> name]
VecT(item)     == [t |-> "Vec", item |-> item]
OptT(inner)    == [t |-> "Opt", inner |-> inner]
RecordT(fields)  == [t |-> "Record", fields |-> fields]
VariantT(fields) == [t |-> "Variant", fields |-> fields]
VarT(name)     == [t |-> "Var", name |-> name]
Field(id, ty)  == [id |-> id, ty |-> ty]
Unbound        == [t |-> "Unbound"]

\* TypeEnv::trace_type: follows type names to the type they stand for
RECURSIVE trace_type(_, _)
trace_type(env, ty) ==
    IF ty.t # "Var" THEN ty
    ELSE IF ty.name \in DOMAIN env THEN trace_type(env, env[ty.name])
    ELSE Unbound

\* the integer types mutate_primitive is instantiated at
PrimTypes == [Int8  |-> [bits |-> 8,  signed |-> TRUE],
              Int16 |-> [bits |-> 16, signed |-> TRUE],
              Nat8  |-> [bits |-> 8,  signed |-> FALSE],
              Nat16 |-> [bits |-> 16, signed |-> FALSE]]

\* x as the two's complement value of type T, and a T value as its bit pattern
Wrap(x, T) ==
    IF T.signed /\ x % Pow2(T.bits) >= Pow2(T.bits - 1)
    THEN (x % Pow2(T.bits)) - Pow2(T.bits) ELSE x % Pow2(T.bits)
Bits(x, T) == x % Pow2(T.bits)
RandomPrim(T) ==
    IF T.signed THEN {0 - Pow2(T.bits - 1), 0 - 1, 3}
    ELSE {0, 3, Pow2(T.bits - 1)}

\* str::is_char_boundary, String::insert_str and String::pop on the bytes of
\* a string whose characters take one or two bytes
is_char_boundary(s, idx) ==
    \/ idx = 0
    \/ idx = Len(s)
    \/ idx < Len(s) /\ (s[idx + 1] < 128 \/ s[idx + 1] >= 192)
insert_str(s, idx, str) ==
    SubSeq(s, 1, idx) \o str \o SubSeq(s, idx + 1, Len(s))
pop(s) ==
    IF Len(s) >= 2 /\ s[Len(s)] >= 128
    THEN SubSeq(s, 1, Len(s) - 2) ELSE SubSeq(s, 1, Len(s) - 1)

\* String::from_utf8 accepts these bytes
RECURSIVE from_utf8(_)
from_utf8(s) ==
    IF s = <<>> THEN TRUE
    ELSE IF s[1] < 128 THEN from_utf8(Tail(s))
    ELSE IF s[1] >= 194 /\ s[1] <= 223 /\ Len(s) >= 2
    THEN s[2] >= 128 /\ s[2] <= 191 /\ from_utf8(Tail(Tail(s)))
    ELSE FALSE

\* rng.random_range(0..n): panics on the empty range
random_range(n) == IF n = 0 THEN {Panic} ELSE {Ret(i) : i \in 0 .. n - 1}

mutate_text(s) ==
    \* 0..5: a naughty string at a random byte index
    UNION {IF i = Panic THEN {Panic}
           ELSE {IF is_char_boundary(s, i.out)
                 THEN Ret(insert_str(s, i.out, n)) ELSE Panic : n \in BLNS}
           : i \in random_range(Len(s))}
    \* 5: pop
    \cup {Ret(IF s # <<>> THEN pop(s) ELSE s)}
    \* 6: the empty string
    \cup {Ret(<<>>)}
    \* 7..9: one byte, plus one
    \cup (IF s # <<>>
          THEN {Ret([s EXCEPT ![i + 1] = (s[i + 1] + 1) % ByteMod])
                : i \in 0 .. Len(s) - 1}
          ELSE {Ret(s)})
    \* 9: nothing
    \cup {Ret(s)}

mutate_int(val) ==
    {Ret(val + 1), Ret(val - 1), Ret(0),
     Ret(I64_MIN), Ret(I64_MAX)}
    \cup UNION {{Ret(random + val), Ret(random - val),
                 Ret(random * val)} : random \in RandomInt}

\* BigUint subtraction panics when the result would be negative
BigUintSub(a, b) == IF a >= b THEN Ret(a - b) ELSE Panic

mutate_nat(val) ==
    {Ret(val + 1),
     Ret(IF val > 0 THEN val - 1 ELSE 0),
     Ret(U64_MAX),
     Ret(0)}
    \cup UNION {{Ret(random + val), BigUintSub(random, val),
                 Ret(random * val)} : random \in RandomNat}

\* floats by class: the random operand lies in [0, 1)
FloatClasses == {"NaN", "Inf", "NegInf", "Zero", "Pos", "Neg"}
FloatAdd(r, f) ==
    CASE f \in {"NaN", "Inf", "NegInf"} -> {f}
      [] f = "Zero" -> {r}
      [] f = "Pos"  -> {"Pos"}
      [] f = "Neg"  -> IF r = "Zero" THEN {"Neg"} ELSE {"Neg", "Zero", "Pos"}
FloatNeg(f) ==
    CASE f = "Inf" -> "NegInf" [] f = "NegInf" -> "Inf"
      [] f = "Pos" -> "Neg"    [] f = "Neg" -> "Pos"
      [] OTHER -> f
FloatMul(r, f) ==
    CASE f = "NaN" -> {"NaN"}
      [] f \in {"Inf", "NegInf"} -> IF r = "Zero" THEN {"NaN"} ELSE {f}
      [] f = "Zero" -> {"Zero"}
      [] OTHER -> IF r = "Zero" THEN {"Zero"} ELSE {f, "Zero"}
mutate_float(f) ==
    {"NaN", "Inf"}
    \cup UNION {FloatAdd(random, f) \cup FloatAdd(random, FloatNeg(f))
                \cup FloatMul(random, f) : random \in {"Zero", "Pos"}}

\* byte strings of a length in lens over RandomBytes
BytesOf(lens) == UNION {[1 .. n -> RandomBytes] : n \in lens}

mutate_principal ==
    {<<>>, <<4>>}
    \cup {IF result[Len(result)] = 4
          THEN [result EXCEPT ![Len(result)] = ByteMod - 1] ELSE result
          : result \in BytesOf(1 .. MaxPrincipal)}

mutate_blob(b) ==
    UNION {IF new_size = Panic THEN {Panic}
           ELSE {Ret(filled) : filled \in BytesOf({new_size.out})}
           : new_size \in random_range(Len(b))}

mutate_primitive(val, T) ==
    UNION {{Wrap(random + val, T), Wrap(random - val, T), Wrap(random * val, T),
            Wrap(XorBits(Bits(random, T), Bits(val, T)), T)}
           : random \in RandomPrim(T)}

\* Rc: the count of strong references next to the value they share
Rc_new(x) == [strong |-> 1, value |-> x]
Rc_clone(rc) == [rc EXCEPT !.strong = @ + 1]
\* Rc::into_inner: Some(value) only for the last strong reference
Rc_into_inner(rc) == IF rc.strong = 1 THEN {rc.value} ELSE {}

\* the first field of a record or variant type with this id, if any
find(fields, id) ==
    {fields[i] : i \in {j \in 1 .. Len(fields) :
                          /\ fields[j].id = id
                          /\ \A h \in 1 .. j - 1 : fields[h].id # id}}

\* Vec::remove
remove(vec, idx) == SubSeq(vec, 1, idx - 1) \o SubSeq(vec, idx + 1, Len(vec))

\* candid_parser::random::any for one type: the values it may generate,
\* none for a type it fails on
RECURSIVE any_value(_, _)
any_value(env, ty) ==
    CASE ty.t = "Bool" -> {Bool(TRUE), Bool(FALSE)}
      [] ty.t = "Null" -> {Null}
      [] ty.t = "Reserved" -> {Reserved}
      [] ty.t = "Text" -> {Text(<<>>), Text(<<65>>)}
      [] ty.t = "Nat"  -> {NatV(0), NatV(7)}
      [] ty.t = "Int"  -> {IntV(0 - 7), IntV(7)}
      [] ty.t \in DOMAIN PrimTypes -> {Prim(ty.t, 0), Prim(ty.t, 3)}
      [] ty.t = "Float64" -> {Float64("Zero"), Float64("Pos")}
      [] ty.t = "Principal" -> {PrincipalV(<<4>>)}
      [] ty.t = "Vec" ->
            {Vec(<<>>)} \cup {Vec(<<v>>) : v \in any_value(env, ty.item)}
      [] ty.t = "Opt" -> {NoneV} \cup {Opt(v) : v \in any_value(env, ty.inner)}
      [] ty.t = "Record" ->
            IF \E i \in 1 .. Len(ty.fields) : any_value(env, ty.fields[i].ty) = {}
            THEN {}
            ELSE {Record([i \in 1 .. Len(ty.fields) |->
                     IDLField(ty.fields[i].id,
                              CHOOSE v \in any_value(env, ty.fields[i].ty) : TRUE)])}
      [] ty.t = "Variant" ->
            UNION {{Variant(ty.fields[i].id, v, i - 1)
                    : v \in any_value(env, ty.fields[i].ty)}
                   : i \in 1 .. Len(ty.fields)}
      [] ty.t = "Var" ->
            IF trace_type(env, ty) = Unbound THEN {}
            ELSE any_value(env, trace_type(env, ty))
      [] ty.t = "Service" -> {Service(<<4>>)}
      [] ty.t = "Func" -> {Func(<<4>>, 0)}
      [] OTHER -> {}

RECURSIVE mutate_value(_, _, _, _)
RECURSIVE mutate_vec(_, _, _, _)

mutate_vec_original(vec, item_ty, env, depth) ==
    IF vec = <<>> THEN {Ret(vec)}
    ELSE
        {Ret(remove(vec, idx)) : idx \in 1 .. Len(vec)}
        \cup UNION {{IF o = Panic THEN Panic
                     ELSE Ret(Append([vec EXCEPT ![idx] = o.out], vec[idx]))
                     : o \in mutate_value(vec[idx], item_ty, env, depth + 1)}
                    : idx \in 1 .. Len(vec)}
        \cup UNION {{IF o = Panic THEN Panic ELSE Ret([vec EXCEPT ![idx] = o.out])
                     : o \in mutate_value(vec[idx], item_ty, env, depth + 1)}
                    : idx \in 1 .. Len(vec)}

mutate_vec(vec, item_ty, env, depth) ==
    IF vec = <<>> THEN {Ret(vec)}
    ELSE
        \* 0: remove an element
        {Ret(remove(vec, idx)) : idx \in 1 .. Len(vec)}
        \* 1: push a copy of an element and mutate the copy
        \cup UNION {{IF o = Panic THEN Panic ELSE Ret(Append(vec, o.out))
                     : o \in mutate_value(vec[idx], item_ty, env, depth + 1)}
                    : idx \in 1 .. Len(vec)}
        \* 2: mutate an element where it is
        \cup UNION {{IF o = Panic THEN Panic ELSE Ret([vec EXCEPT ![idx] = o.out])
                     : o \in mutate_value(vec[idx], item_ty, env, depth + 1)}
                    : idx \in 1 .. Len(vec)}

mutate_opt(o, ty, env, depth) ==
    IF trace_type(env, ty).t = "Opt"
    THEN mutate_value(o, trace_type(env, ty).inner, env, depth)
    ELSE {Ret(o)}

mutate_record_any_id(val, field_types, env, depth) ==
    IF val.fields = <<>> THEN {Ret(val)}
    ELSE UNION {{IF o = Panic THEN Panic
                 ELSE Ret([val EXCEPT !.fields[idx].val = o.out])
                 : o \in mutate_value(val.fields[idx].val, Ty("Reserved"),
                                      env, depth + 1)}
                : idx \in 1 .. Len(val.fields)}

mutate_record(val, field_types, env, depth) ==
    IF val.fields = <<>> THEN {Ret(val)}
    ELSE UNION {UNION {{IF o = Panic THEN Panic
                        ELSE Ret([val EXCEPT !.fields[idx].val = o.out])
                        : o \in mutate_value(val.fields[idx].val, field_ty.ty,
                                             env, depth + 1)}
                       : field_ty \in find(field_types, val.fields[idx].id)}
                \cup (IF find(field_types, val.fields[idx].id) = {}
                      THEN {Ret(val)} ELSE {})
                : idx \in 1 .. Len(val.fields)}

mutate_variant(val, variant_fields, env, depth) ==
    \* switch to the variant at a random index
    (IF variant_fields = <<>> THEN {}
     ELSE UNION {
        IF Rc_into_inner(Rc_clone(Rc_new(variant_fields[new_variant_idx].id))) = {}
        THEN {Panic}
        ELSE {Ret(Variant(id, new_val, new_variant_idx - 1))
              : id \in Rc_into_inner(
                          Rc_clone(Rc_new(variant_fields[new_variant_idx].id))),
                new_val \in
                    IF any_value(env, variant_fields[new_variant_idx].ty) = {}
                    THEN {Null}
                    ELSE any_value(env, variant_fields[new_variant_idx].ty)}
        : new_variant_idx \in 1 .. Len(variant_fields)})
    \* mutate the value of the current variant
    \cup (IF find(variant_fields, val.id) = {} THEN {Ret(val)}
          ELSE UNION {{IF o = Panic THEN Panic ELSE Ret([val EXCEPT !.val = o.out])
                       : o \in mutate_value(val.val, field_ty.ty, env, depth + 1)}
                      : field_ty \in find(variant_fields, val.id)})

mutate_value(val, ty, env, depth) ==
    IF depth > MaxDepth THEN {Ret(val)}
    ELSE CASE val.k = "Bool" -> {Ret(Bool(~val.b))}
      [] val.k \in {"Null", "None", "Reserved"} -> {Ret(val)}
      [] val.k \in {"Text", "Number"} ->
            {IF o = Panic THEN Panic ELSE Ret([val EXCEPT !.s = o.out])
             : o \in mutate_text(val.s)}
      [] val.k = "Int" -> {Ret(IntV(o.out)) : o \in mutate_int(val.n)}
      [] val.k \in DOMAIN PrimTypes ->
            {Ret(Prim(val.k, n)) : n \in mutate_primitive(val.n, PrimTypes[val.k])}
      [] val.k = "Nat" ->
            {IF o = Panic THEN Panic ELSE Ret(NatV(o.out)) : o \in mutate_nat(val.n)}
      [] val.k = "Float64" -> {Ret(Float64(f)) : f \in mutate_float(val.cls)}
      [] val.k = "Vec" ->
            IF trace_type(env, ty).t = "Vec"
            THEN {IF o = Panic THEN Panic ELSE Ret(Vec(o.out))
                  : o \in mutate_vec(val.items, trace_type(env, ty).item, env, depth)}
            ELSE {Ret(val)}
      [] val.k = "Principal" -> {Ret(PrincipalV(p)) : p \in mutate_principal}
      [] val.k = "Blob" ->
            {IF o = Panic THEN Panic ELSE Ret(Blob(o.out)) : o \in mutate_blob(val.s)}
      [] val.k = "Record" ->
            IF trace_type(env, ty).t = "Record"
            THEN mutate_record(val, trace_type(env, ty).fields, env, depth)
            ELSE {Ret(val)}
      [] val.k = "Variant" ->
            IF trace_type(env, ty).t = "Variant"
            THEN mutate_variant(val, trace_type(env, ty).fields, env, depth)
            ELSE {Ret(val)}
      [] val.k = "Opt" ->
            {IF o = Panic THEN Panic ELSE Ret(Opt(o.out))
             : o \in mutate_opt(val.val, ty, env, depth)}
      [] val.k \in {"Service", "Func"} -> {Panic}

----------------------------------------------------------------------------
(* SpecValue: mutate_value applied once to a value under its declared type  *)

MaxNest == 22         \* containers around the innermost value of a chain

Pending == [pending |-> TRUE]

\* the type names of the interface file
MethodEnv == [Amount |-> Ty("Nat"),
              Account |-> RecordT(<<Field(0, Ty("Nat8")), Field(1, Ty("Text"))>>),
              Outcome |-> VariantT(<<Field(0, Ty("Nat8")), Field(1, Ty("Text"))>>)]

\* a chain of single-child containers of the kinds given, outermost first,
\* around leaf; and its type
RECURSIVE Nest(_, _)
Nest(kinds, leaf) ==
    IF kinds = <<>> THEN leaf
    ELSE CASE Head(kinds) = "Record" ->
                Record(<<IDLField(0, Nest(Tail(kinds), leaf))>>)
           [] Head(kinds) = "Vec" -> Vec(<<Nest(Tail(kinds), leaf)>>)
           [] Head(kinds) = "Variant" -> Variant(0, Nest(Tail(kinds), leaf), 0)
           [] Head(kinds) = "Opt" -> Opt(Nest(Tail(kinds), leaf))

RECURSIVE NestT(_, _)
NestT(kinds, leaf_ty) ==
    IF kinds = <<>> THEN leaf_ty
    ELSE CASE Head(kinds) = "Record" ->
                RecordT(<<Field(0, NestT(Tail(kinds), leaf_ty))>>)
           [] Head(kinds) = "Vec" -> VecT(NestT(Tail(kinds), leaf_ty))
           [] Head(kinds) = "Variant" ->
                VariantT(<<Field(0, NestT(Tail(kinds), leaf_ty))>>)
           [] Head(kinds) = "Opt" -> OptT(NestT(Tail(kinds), leaf_ty))

\* n records, the one at position at replaced by a container of another kind
Chain(n, at, kind) == [i \in 1 .. n |-> IF i = at THEN kind ELSE "Record"]

ValueCase(val, ty, depth) ==
    [val |-> val, ty |-> ty, depth |-> depth, kinds |-> <<>>]
ChainCase(kinds, depth) ==
    [val |-> Nest(kinds, Bool(TRUE)), ty |-> NestT(kinds, Ty("Bool")),
     depth |-> depth, kinds |-> kinds]

LeafCases ==
    << ValueCase(Bool(TRUE), Ty("Bool"), 0),
       ValueCase(Bool(TRUE), Ty("Bool"), MaxDepth),
       ValueCase(Bool(TRUE), Ty("Bool"), MaxDepth + 1),
       ValueCase(Null, Ty("Null"), 0),
       ValueCase(NoneV, OptT(Ty("Nat")), 0),
       ValueCase(Reserved, Ty("Reserved"), 0),
       ValueCase(Text(<<>>), Ty("Text"), 0),
       ValueCase(Text(<<65>>), Ty("Text"), 0),
       ValueCase(Text(<<127, 66>>), Ty("Text"), 0),
       ValueCase(Text(<<195, 169>>), Ty("Text"), 0),
       ValueCase(Number(<<49>>), Ty("Int"), 0),
       ValueCase(IntV(5), Ty("Int"), 0),
       ValueCase(NatV(0), Ty("Nat"), 0),
       ValueCase(NatV(3), VarT("Amount"), 0),
       ValueCase(NatV(100), Ty("Nat"), 0),
       ValueCase(NatV(100), Ty("Nat"), MaxDepth + 1),
       ValueCase(Prim("Nat8", 255), Ty("Nat8"), 0),
       ValueCase(Prim("Int8", 0 - 128), Ty("Int8"), 0),
       ValueCase(Prim("Nat16", 10), Ty("Nat16"), 0),
       ValueCase(Prim("Int16", 0 - 1), Ty("Int16"), 0),
       ValueCase(Float64("Pos"), Ty("Float64"), 0),
       ValueCase(Float64("NaN"), Ty("Float64"), 0),
       ValueCase(PrincipalV(<<4>>), Ty("Principal"), 0),
       ValueCase(Blob(<<>>), VecT(Ty("Nat8")), 0),
       ValueCase(Blob(<<1, 2>>), VecT(Ty("Nat8")), 0),
       ValueCase(Service(<<4>>), Ty("Service"), 0),
       ValueCase(Func(<<4>>, 0), Ty("Func"), 0) >>

CompoundCases ==
    << ValueCase(Vec(<<>>), VecT(Ty("Nat")), 0),
       ValueCase(Vec(<<NatV(10), NatV(20)>>), VecT(Ty("Nat")), 0),
       ValueCase(Vec(<<Bool(TRUE), Bool(FALSE), Bool(FALSE)>>), VecT(Ty("Bool")), 0),
       ValueCase(Vec(<<Bool(TRUE)>>), VecT(Ty("Bool")), MaxDepth),
       ValueCase(Vec(<<NatV(1)>>), VarT("Missing"), 0),
       ValueCase(Record(<<>>), RecordT(<<>>), 0),
       ValueCase(Record(<<IDLField(0, Prim("Nat8", 10)), IDLField(1, Text(<<97>>))>>),
                 VarT("Account"), 0),
       ValueCase(Record(<<IDLField(0, Bool(TRUE)), IDLField(1, Bool(TRUE))>>),
                 RecordT(<<Field(1, Ty("Bool")), Field(0, Ty("Bool"))>>), 0),
       ValueCase(Record(<<IDLField(0, Bool(TRUE)), IDLField(9, Bool(TRUE))>>),
                 RecordT(<<Field(0, Ty("Bool"))>>), 0),
       ValueCase(Record(<<IDLField(0, Bool(TRUE)),
                          IDLField(1, Vec(<<Bool(TRUE)>>))>>),
                 RecordT(<<Field(0, Ty("Bool")), Field(1, VecT(Ty("Bool")))>>), 0),
       ValueCase(Record(<<IDLField(0, Bool(TRUE))>>), Ty("Reserved"), 0),
       ValueCase(Variant(0, Prim("Nat8", 10), 0), VarT("Outcome"), 0),
       ValueCase(Variant(1, Text(<<97>>), 1), VarT("Outcome"), 0),
       ValueCase(Variant(0, Bool(TRUE), 0), VariantT(<<Field(0, Ty("Bool"))>>), 0),
       ValueCase(Variant(0, Bool(TRUE), 0), VariantT(<<>>), 0),
       ValueCase(Opt(NatV(3)), OptT(Ty("Nat")), 0),
       ValueCase(Opt(Bool(TRUE)), OptT(Ty("Bool")), MaxDepth),
       ValueCase(Opt(Text(<<65>>)), OptT(Ty("Nat")), 0) >>

ChainCases ==
    [n \in 1 .. 3 |-> ChainCase(Chain(MaxDepth - 2 + n, 0, "Record"), 0)]
    \o [n \in 1 .. 3 |->
          ChainCase(Chain(MaxDepth + 1, 7, <<"Opt", "Vec", "Variant">>[n]), 0)]
    \o << ChainCase(Chain(MaxNest, MaxNest, "Opt"), 0),
          ChainCase(Chain(2, 1, "Opt"), MaxDepth - 1),
          ChainCase(Chain(2, 0, "Record"), MaxDepth - 1) >>

ValueCases == LeafCases \o CompoundCases \o ChainCases

\* everything but the mutator is idle
FuzzerIdle ==
    /\ args = [wasm_bytes |-> NoBytes, history_size |-> 8, seed |-> SeedRandom]
    /\ module = NoModule
    /\ ids = NoIds
    /\ ret = NoBytes
    /\ COVERAGE_MAP = InitialMap
    /\ ncalls = 0
    /\ done = <<>>
    /\ RuntimeIdle
    /\ canister_builder = NoBuilder
    /\ fuzzer_builder = [name |-> "default_fuzzer", canisters |-> <<>>]
    /\ fuzzer_state = NoState
    /\ pocket_ics = 0
    /\ lookup = NoLookup
    /\ SNAPSHOT = NoSnapshot
    /\ fuzz = NoFuzz

UnchangedFuzzer ==
    UNCHANGED <<args, module, ids, ret, COVERAGE_MAP, ncalls, done,
                canister, gvals, mem, reply, calls, last,
                canister_builder, fuzzer_builder, fuzzer_state, pocket_ics,
                lookup, SNAPSHOT, fuzz>>

InitValue ==
    /\ pc = "value"
    /\ FuzzerIdle
    /\ mutator = NoMutator
    /\ \E c \in 1 .. Len(ValueCases) :
          mutation = [case |-> c, out |-> Pending]

TheCase == ValueCases[mutation.case]

\* mutate_value(&mut val, &ty, &env, &mut rng, depth)
MutateValue ==
    /\ pc = "value"
    /\ mutation.out = Pending
    /\ \E o \in mutate_value(TheCase.val, TheCase.ty, MethodEnv, TheCase.depth) :
          mutation' = [mutation EXCEPT !.out = o]
    /\ pc' = "mutated"
    /\ UNCHANGED mutator
    /\ UnchangedFuzzer

\* the next call starts from the value as it was
NextValue ==
    /\ pc = "mutated"
    /\ mutation' = [mutation EXCEPT !.out = Pending]
    /\ pc' = "value"
    /\ UNCHANGED mutator
    /\ UnchangedFuzzer

NextSpecValue ==
    \/ MutateValue
    \/ NextValue

SpecValue == InitValue /\ [][NextSpecValue]_vars

----------------------------------------------------------------------------
(* SpecMutate: CandidParserMutator::new and Mutator::mutate on an input     *)

MaxMutations == 2     \* calls of mutate on one input

Err == [err |-> TRUE]
EmptyEnv == [n \in {} |-> Unbound]

\* IDLValue::value_ty: the type to_bytes writes for a value
RECURSIVE value_ty(_)
value_ty(v) ==
    CASE v.k \in {"Bool", "Null", "Reserved", "Text", "Int", "Nat", "Float64",
                  "Principal", "Service", "Func"} \cup DOMAIN PrimTypes -> Ty(v.k)
      [] v.k = "Number" -> Ty("Int")
      [] v.k = "None" -> OptT(Ty("Empty"))
      [] v.k = "Opt" -> OptT(value_ty(v.val))
      [] v.k = "Vec" ->
            VecT(IF v.items = <<>> THEN Ty("Empty") ELSE value_ty(v.items[1]))
      [] v.k = "Blob" -> VecT(Ty("Nat8"))
      [] v.k = "Record" ->
            RecordT([i \in 1 .. Len(v.fields) |->
                        Field(v.fields[i].id, value_ty(v.fields[i].val))])
      [] v.k = "Variant" -> VariantT(<<Field(v.id, value_ty(v.val))>>)

\* the value as its serialization holds it: a variant is written with index 0,
\* the only field of the type value_ty gives it
RECURSIVE idl_serialize(_)
idl_serialize(v) ==
    CASE v.k = "Opt" -> Opt(idl_serialize(v.val))
      [] v.k = "Vec" -> Vec([i \in 1 .. Len(v.items) |-> idl_serialize(v.items[i])])
      [] v.k = "Record" ->
            Record([i \in 1 .. Len(v.fields) |->
                      IDLField(v.fields[i].id, idl_serialize(v.fields[i].val))])
      [] v.k = "Variant" -> Variant(v.id, idl_serialize(v.val), 0)
      [] OTHER -> v

\* a serialized value can be read back under a wire type
RECURSIVE deserializes(_, _)
deserializes(v, ty) ==
    CASE v.k \in {"Text", "Number"} -> ty.t \in {"Text", "Int"} /\ from_utf8(v.s)
      [] v.k = "None" -> ty.t = "Opt"
      [] v.k = "Opt" -> ty.t = "Opt" /\ deserializes(v.val, ty.inner)
      [] v.k = "Blob" -> ty = VecT(Ty("Nat8"))
      [] v.k = "Vec" ->
            /\ ty.t = "Vec"
            /\ \A i \in 1 .. Len(v.items) : deserializes(v.items[i], ty.item)
      [] v.k = "Record" ->
            /\ ty.t = "Record"
            /\ Len(ty.fields) = Len(v.fields)
            /\ \A i \in 1 .. Len(v.fields) :
                  /\ ty.fields[i].id = v.fields[i].id
                  /\ deserializes(v.fields[i].val, ty.fields[i].ty)
      [] v.k = "Variant" ->
            /\ ty.t = "Variant"
            /\ v.idx + 1 \in 1 .. Len(ty.fields)
            /\ ty.fields[v.idx + 1].id = v.id
            /\ deserializes(v.val, ty.fields[v.idx + 1].ty)
      [] OTHER -> ty.t = v.k

\* the bytes of an input that hold Candid arguments: the type table and the
\* values; any other bytes are Garbage
Bytes(types, vals) == [types |-> types, args |-> vals]

\* IDLArgs::to_bytes
IsIntLiteral(s) == s # <<>> /\ \A i \in 1 .. Len(s) : s[i] \in 48 .. 57
to_bytes(idl_args) ==
    IF \E i \in 1 .. Len(idl_args) :
          idl_args[i].k = "Number" /\ ~IsIntLiteral(idl_args[i].s)
    THEN Err
    ELSE Ret(Bytes([i \in 1 .. Len(idl_args) |-> value_ty(idl_args[i])],
                   [i \in 1 .. Len(idl_args) |-> idl_serialize(idl_args[i])]))

\* IDLArgs::from_bytes, with get_types of the result
from_bytes(bytes) ==
    IF bytes = Garbage THEN Err
    ELSE IF \A i \in 1 .. Len(bytes.args) :
               deserializes(bytes.args[i], bytes.types[i])
    THEN Ret(bytes)
    ELSE Err

\* candid::types::subtype::subtype(gamma, env, t1, t2).is_ok()
RECURSIVE subtype(_, _, _)
subtype(env, t1, t2) ==
    IF t1.t = "Var" \/ t2.t = "Var"
    THEN IF Unbound \in {trace_type(env, t1), trace_type(env, t2)} THEN FALSE
         ELSE subtype(env, trace_type(env, t1), trace_type(env, t2))
    ELSE IF t1 = t2 THEN TRUE
    ELSE IF t2.t = "Reserved" \/ t1.t = "Empty" THEN TRUE
    ELSE IF t1.t = "Nat" /\ t2.t = "Int" THEN TRUE
    ELSE IF t2.t = "Opt" THEN TRUE
    ELSE IF t1.t = "Vec" /\ t2.t = "Vec" THEN subtype(env, t1.item, t2.item)
    ELSE IF t1.t = "Record" /\ t2.t = "Record"
    THEN \A j \in 1 .. Len(t2.fields) :
            IF find(t1.fields, t2.fields[j].id) = {}
            THEN trace_type(env, t2.fields[j].ty).t \in {"Opt", "Null", "Reserved"}
            ELSE \A f \in find(t1.fields, t2.fields[j].id) :
                    subtype(env, f.ty, t2.fields[j].ty)
    ELSE IF t1.t = "Variant" /\ t2.t = "Variant"
    THEN \A i \in 1 .. Len(t1.fields) :
            /\ find(t2.fields, t1.fields[i].id) # {}
            /\ \A f \in find(t2.fields, t1.fields[i].id) :
                  subtype(env, t1.fields[i].ty, f.ty)
    ELSE FALSE

\* candid_parser::random::any for an argument list: the lists it may
\* generate, none when it fails
RECURSIVE any(_, _)
any(env, types) ==
    IF types = <<>> THEN {<<>>}
    ELSE {<<v>> \o rest : v \in any_value(env, Head(types)),
                          rest \in any(env, Tail(types))}

\* the interface files a mutator may be given: what pretty_check_file makes
\* of them
DidFiles == [ledger |-> [parses |-> TRUE, env |-> MethodEnv,
                         actor |-> [ping |-> <<>>,
                                    set_name |-> <<Ty("Text")>>,
                                    deposit |-> <<VarT("Account"), VarT("Amount")>>,
                                    settle |-> <<VarT("Outcome")>>,
                                    subscribe |-> <<Ty("Func")>>]],
             broken |-> [parses |-> FALSE]]
NoCandidDef == [none |-> TRUE]
CandidTypeDefArgs ==
    {[def |-> "ledger", method |-> m]
       : m \in {"ping", "set_name", "deposit", "settle", "subscribe", "absent"}}
    \cup {[def |-> "broken", method |-> "ping"]}

\* the inputs mutate is first called on
SeedInputs ==
    << Garbage,
       Bytes(<<>>, <<>>),
       Bytes(<<Ty("Text")>>, <<Text(<<>>)>>),
       Bytes(<<Ty("Text")>>, <<Text(<<127>>)>>),
       Bytes(<<Ty("Text")>>, <<Text(<<195, 169>>)>>),
       Bytes(<<MethodEnv.Account, Ty("Nat")>>,
             <<Record(<<IDLField(0, Prim("Nat8", 10)), IDLField(1, Text(<<97>>))>>),
               NatV(7)>>),
       Bytes(<<MethodEnv.Outcome>>, <<Variant(1, Text(<<97>>), 1)>>),
       Bytes(<<Ty("Func")>>, <<Func(<<4>>, 0)>>),
       Bytes(<<Ty("Nat")>>, <<NatV(7)>>) >>

\* CandidParserMutator::new
new(candid_def) ==
    IF candid_def = NoCandidDef
    THEN Ret([is_enabled |-> FALSE, env |-> EmptyEnv, arg_types |-> <<>>,
              method_name |-> NoCandidDef])
    ELSE IF ~DidFiles[candid_def.def].parses THEN Panic
    ELSE IF candid_def.method \notin DOMAIN DidFiles[candid_def.def].actor THEN Panic
    ELSE Ret([is_enabled |-> TRUE, env |-> DidFiles[candid_def.def].env,
              arg_types |-> DidFiles[candid_def.def].actor[candid_def.method],
              method_name |-> candid_def.method])

\* what a call of mutate leaves: its result, the input, the path it took and
\* the argument indices it handed to mutate_value
Outcome(result, input, path, indices) ==
    [result |-> result, input |-> input, path |-> path, indices |-> indices]

mutate_random_generation(self, input) ==
    IF any(self.env, self.arg_types) = {}
    THEN {Outcome("Skipped", input, "generation", {})}
    ELSE {IF to_bytes(new_args) = Err
          THEN Outcome("Skipped", input, "generation", {})
          ELSE Outcome("Mutated", to_bytes(new_args).out, "generation", {})
          : new_args \in any(self.env, self.arg_types)}

\* the end of mutate_existing_bytes: re-encode and overwrite the input
reencode(idl_args, input, indices) ==
    IF to_bytes(idl_args) = Err THEN Outcome("Skipped", input, "existing", indices)
    ELSE Outcome("Mutated", to_bytes(idl_args).out, "existing", indices)

mutate_existing_bytes_cleared(self, input) ==
    IF from_bytes(input) = Err THEN {Outcome("Skipped", input, "existing", {})}
    ELSE IF ~(/\ Len(self.arg_types) = Len(from_bytes(input).out.types)
              /\ \A i \in 1 .. Len(self.arg_types) :
                    subtype(self.env, from_bytes(input).out.types[i],
                            self.arg_types[i]))
    THEN {Outcome("Skipped", Garbage, "existing", {})}
    ELSE IF input.args = <<>> THEN {reencode(input.args, input, {})}
    ELSE UNION {{IF o = Panic THEN Outcome("Panic", input, "existing", {index})
                 ELSE reencode([input.args EXCEPT ![index] = o.out], input, {index})
                 : o \in mutate_value(input.args[index], self.arg_types[index],
                                      self.env, 0)}
                : index \in 1 .. Len(input.args)}

mutate_existing_bytes(self, input) ==
    IF from_bytes(input) = Err THEN {Outcome("Skipped", input, "existing", {})}
    ELSE IF ~(/\ Len(self.arg_types) = Len(from_bytes(input).out.types)
              /\ \A i \in 1 .. Len(self.arg_types) :
                    subtype(self.env, from_bytes(input).out.types[i],
                            self.arg_types[i]))
    THEN {Outcome("Skipped", input, "existing", {})}
    ELSE IF input.args = <<>> THEN {reencode(input.args, input, {})}
    ELSE UNION {{IF o = Panic THEN Outcome("Panic", input, "existing", {index})
                 ELSE reencode([input.args EXCEPT ![index] = o.out], input, {index})
                 : o \in mutate_value(input.args[index], self.arg_types[index],
                                      self.env, 0)}
                : index \in 1 .. Len(input.args)}

mutate_always_decodes(self, input) ==
    mutate_random_generation(self, input)
    \cup mutate_existing_bytes(self, input)

mutate(self, input) ==
    IF ~self.is_enabled
    THEN mutate_random_generation(self, input)
         \cup {Outcome("Skipped", input, "none", {})}
    ELSE mutate_random_generation(self, input)
         \cup mutate_existing_bytes(self, input)

\* the outcome of the latest call, next to the input it was given, the number
\* of calls so far and the argument of new
Called(o, before, n, candid_def) ==
    [result |-> o.result, input |-> o.input, path |-> o.path,
     indices |-> o.indices, before |-> before, calls |-> n,
     candid_def |-> candid_def]

InitMutate ==
    /\ pc = "new"
    /\ FuzzerIdle
    /\ mutator = NoMutator
    /\ \E i \in 1 .. Len(SeedInputs) :
          mutation = Called(Outcome("None", SeedInputs[i], "none", {}),
                            SeedInputs[i], 0, NoCandidDef)

\* CandidParserMutator::new(candid_def)
New ==
    /\ pc = "new"
    /\ \E candid_def \in CandidTypeDefArgs \cup {NoCandidDef} :
          /\ mutation' = Called(mutation, mutation.before, 0, candid_def)
          /\ IF new(candid_def) = Panic
             THEN mutator' = mutator /\ pc' = "panic"
             ELSE mutator' = new(candid_def).out /\ pc' = "mutate"
    /\ UnchangedFuzzer

\* Mutator::mutate(&mut self, state, input)
Mutate ==
    /\ pc = "mutate"
    /\ mutation.calls < MaxMutations
    /\ \E o \in mutate(mutator, mutation.input) :
          /\ mutation' = Called(o, mutation.input, mutation.calls + 1,
                                mutation.candid_def)
          /\ pc' = IF o.result = "Panic" THEN "panic" ELSE "mutate"
    /\ UNCHANGED mutator
    /\ UnchangedFuzzer

NextMutate ==
    \/ New
    \/ Mutate

SpecMutate == InitMutate /\ [][NextMutate]_vars


----------------------------------------------------------------------------
(* Properties of Spec *)

\* C1: instrument_wasm_for_fuzzing fails for every history_size outside
\* {1, 2, 4, 8} and for none inside; the failure comes before the module is
\* parsed, returns no bytes and leaves COVERAGE_MAP as the earlier calls left
\* it (every earlier call returned, so it allocated exactly once).
C1_InvalidHistoryFails ==
    /\ pc = "panic_history" =>
          /\ args.history_size \notin {1, 2, 4, 8}
          /\ module = NoModule
          /\ ret = NoBytes
          /\ COVERAGE_MAP.alloc = ncalls - 1
          /\ ncalls = 1 => COVERAGE_MAP = InitialMap
    /\ (pc # "assert" /\ args.history_size \notin {1, 2, 4, 8}) => pc = "panic_history"
    /\ (pc = "returned" \/ pc = "parse") => args.history_size \in {1, 2, 4, 8}

\* a second call with unparsable bytes and history_size 3 fails on the
\* history check
C1_Witness ==
    /\ pc = "panic_history"
    /\ args.wasm_bytes = Garbage
    /\ args.history_size = 3
    /\ ncalls = 2
    /\ COVERAGE_MAP.alloc = 1

AfterInjectGlobals ==
    {"inject_export", "instrument_branches", "set_map", "encode", "returned",
     "panic_validate"}

\* C2: for a module with n globals and h in {1, 2, 4, 8}, inject_globals
\* appends exactly h + 1 globals and changes none: globals n .. n+h-1 are
\* mutable i32, global n+h is an immutable i32, all non-shared with the
\* initialiser i32.const 0, and the returned ids are those indices in order.
C2_GlobalsExact ==
    pc \in AfterInjectGlobals =>
        LET n == Len(args.wasm_bytes.globals)
            h == args.history_size
        IN  /\ h \in {1, 2, 4, 8}
            /\ Len(module.globals) = n + h + 1
            /\ \A g \in 1..n : module.globals[g] = args.wasm_bytes.globals[g]
            /\ \A i \in 0..(h - 1) :
                  module.globals[n + i + 1] =
                      [ty |-> "i32", mutable |-> TRUE, shared |-> FALSE,
                       init |-> <<[op |-> "I32Const", arg |-> 0]>>]
            /\ module.globals[n + h + 1] =
                      [ty |-> "i32", mutable |-> FALSE, shared |-> FALSE,
                       init |-> <<[op |-> "I32Const", arg |-> 0]>>]
            /\ ids.prev_loc = [i \in 1..h |-> n + i - 1]
            /\ ids.mem_ptr = n + h
            /\ pc = "returned" => ret.globals = module.globals

C2_Witness ==
    /\ pc = "inject_export"
    /\ args.history_size = 8
    /\ Len(args.wasm_bytes.globals) = 2
    /\ Len(module.globals) = 11

----------------------------------------------------------------------------
(* Properties of SpecRun *)

\* the values of the prev_loc globals, newest first, and of mem_ptr
PrevLoc(g) == [i \in 1..Len(ids.prev_loc) |-> g[ids.prev_loc[i] + 1]]
MemPtr(g)  == g[ids.mem_ptr + 1]

RECURSIVE XorAll(_, _)
XorAll(s, i) == IF i > Len(s) THEN 0 ELSE XorBits(s[i], XorAll(s, i + 1))

\* key = (curr_loc XOR prev_loc[0] XOR ... XOR prev_loc[h-1]) + mem_ptr
Key(c, g) == XorBits(c, XorAll(PrevLoc(g), 1)) + MemPtr(g)

\* the curr_loc constant at the entry site of the exported function `name`
SiteOf(name) == canister.functions[ExportIndex(canister, name) + 1].body[1].arg
FuzzSite == SiteOf(FuzzExportName)
CoverageSite == SiteOf(CoverageExportName)

\* m2 is m with the byte at key replaced by (m[key] + 1) mod 256, nothing else
Bumped(m, m2, key) ==
    \A a \in (DOMAIN m) \cup (DOMAIN m2) \cup {key} :
        Load8(m2, a) = IF a = key THEN (Load8(m, a) + 1) % ByteMod ELSE Load8(m, a)

\* the events of trace t whose operation is in ops, in order
RECURSIVE Events(_, _)
Events(t, ops) ==
    IF t = <<>> THEN <<>>
    ELSE (IF Head(t).op \in ops THEN <<Head(t)>> ELSE <<>>) \o Events(Tail(t), ops)

\* what every call of the coverage export does, whatever it replies
CoverageCallFrame ==
    /\ MemPtr(gvals) = 0
    /\ reply'.sent
    /\ reply'.len = AFL_COVERAGE_MAP_SIZE * args.history_size
    /\ \A a \in DOMAIN mem' :
          a < MemPtr(gvals) \/ a >= MemPtr(gvals) + AFL_COVERAGE_MAP_SIZE * args.history_size
    /\ Events(last'.trace, {"msg_reply_data_append", "msg_reply", "memory.fill"})
         = << Ev("msg_reply_data_append", MemPtr(gvals),
                 AFL_COVERAGE_MAP_SIZE * args.history_size),
              Ev("msg_reply", 0, 0),
              Ev("memory.fill", MemPtr(gvals),
                 AFL_COVERAGE_MAP_SIZE * args.history_size) >>

\* C3 (as amended): invoking `canister_update __export_coverage_for_afl`
\* replies with exactly MAP_SIZE * history_size bytes, the contents of memory 0
\* from mem_ptr (0) as they are when msg_reply_data_append runs, that is the
\* contents at the time of the call with the one counter incremented that the
\* entry point's own instrumentation site hits; the steps run in the order
\* msg_reply_data_append, msg_reply, memory.fill, and when the call returns
\* the whole coverage region is zero.
C3_ReplyThenReset ==
    [][last'.kind = "coverage" =>
          /\ CoverageCallFrame
          /\ Bumped(mem, reply'.bytes, Key(CoverageSite, gvals))]_vars

\* C3 witness: a coverage call has returned a map with a counter above 1 and
\* left memory zero
C3_Witness ==
    /\ last.kind = "coverage"
    /\ mem = <<>>
    /\ \E a \in DOMAIN reply.bytes : reply.bytes[a] >= 2

\* C3 as stated: the reply holds the contents of the region as they are at
\* the time of the call
C3_ReplyIsMemoryAtCall ==
    [][last'.kind = "coverage" =>
          /\ CoverageCallFrame
          /\ reply'.bytes = mem]_vars

\* C4: a call helper(curr_loc) computes key = (curr_loc XOR prev_loc[0] XOR
\* ... XOR prev_loc[h-1]) + mem_ptr from the values the prev_loc globals hold
\* before the call, replaces mem[key] by (mem[key] + 1) mod 256 and writes no
\* other byte of memory.
C4_HelperCounts ==
    [][last'.kind = "fuzz" =>
          /\ Bumped(mem, mem', Key(FuzzSite, gvals))
          /\ Len(Events(last'.trace, {"i32.store8", "memory.fill"})) = 1
          /\ Events(last'.trace, {"i32.store8"})[1].addr = Key(FuzzSite, gvals)]_vars

\* C4 witness: a helper call whose key differs from its curr_loc has raised a
\* counter to 2 or more
C4_Witness ==
    /\ last.kind = "fuzz"
    /\ \E e \in Range(last.trace) :
          e.op = "i32.store8" /\ e.addr # FuzzSite /\ e.val >= 2
          /\ Load8(mem, e.addr) = e.val

\* C5 (as amended): every byte of the coverage map is a wrapping 8-bit hit
\* counter: it always holds a value in 0..255, a helper call that hits a
\* counter holding 255 sets it to 0, and a counter holding 255 that the call
\* does not hit keeps 255.
C5_Wrapping ==
    /\ [](\A a \in DOMAIN mem : mem[a] \in 1..(ByteMod - 1))
    /\ [][last'.kind = "fuzz" =>
            \A a \in DOMAIN mem :
                mem[a] = ByteMod - 1 =>
                    Load8(mem', a) = IF a = Key(FuzzSite, gvals) THEN 0 ELSE ByteMod - 1]_vars

\* C5 witness: a helper call has stored 255 + 1 and the counter reads 0
C5_Witness ==
    /\ last.kind = "fuzz"
    /\ \E e \in Range(last.trace) :
          e.op = "i32.store8" /\ e.val = ByteMod /\ Load8(mem, e.addr) = 0

\* C5 as stated: a counter that has reached 255 stays at 255 under helper calls
C5_Saturating ==
    [][last'.kind = "fuzz" =>
          \A a \in DOMAIN mem : mem[a] = ByteMod - 1 => Load8(mem', a) = ByteMod - 1]_vars

\* the argument of the helper call a message has just made
LastArg == calls[Len(calls)]

\* C6: each call helper(c) shifts the history using the old values:
\* afterwards prev_loc[0] = c >>> 1 and prev_loc[i] = (prev_loc[i-1] before the
\* call) >>> 1 for i in 1..h-1; hence after k helper calls c_1..c_k from the
\* all-zero state, prev_loc[i] = c_(k-i) >>> (i+1) when k > i and 0 otherwise.
C6_HistoryShift ==
    /\ [](\A i \in 0..(args.history_size - 1) :
             PrevLoc(gvals)[i + 1] =
                 IF Len(calls) > i THEN calls[Len(calls) - i] \div Pow2(i + 1) ELSE 0)
    /\ [][/\ LastArg' = (IF last'.kind = "fuzz" THEN FuzzSite ELSE CoverageSite)
          /\ PrevLoc(gvals')[1] = LastArg' \div 2
          /\ \A i \in 1..(args.history_size - 1) :
                PrevLoc(gvals')[i + 1] = PrevLoc(gvals)[i] \div 2]_vars

\* C6 witness: four helper calls from both sites have filled a history of 4
C6_Witness ==
    /\ args.history_size = 4
    /\ Len(calls) = 4
    /\ Range(calls) = {FuzzSite, CoverageSite}
    /\ \A i \in 1..4 : PrevLoc(gvals)[i] # 0

----------------------------------------------------------------------------
(* Properties of SpecBranches *)

\* position p of body starts a pair `i32.const c; call helper`
IsPair(body, p, helper) ==
    /\ p >= 1
    /\ p + 1 <= Len(body)
    /\ body[p].op = "I32Const"
    /\ body[p + 1] = Call(helper)

Pairs(body, helper) == {p \in 1..Len(body) : IsPair(body, p, helper)}

\* body[i..] with the pairs deleted
RECURSIVE Strip(_, _, _)
Strip(body, i, helper) ==
    IF i > Len(body) THEN <<>>
    ELSE IF IsPair(body, i, helper) THEN Strip(body, i + 2, helper)
    ELSE <<body[i]>> \o Strip(body, i + 1, helper)

\* the constants of the pairs of body[i..], in instruction order
RECURSIVE SitesOf(_, _, _)
SitesOf(body, i, helper) ==
    IF i > Len(body) THEN <<>>
    ELSE IF IsPair(body, i, helper)
    THEN <<body[i].arg>> \o SitesOf(body, i + 2, helper)
    ELSE SitesOf(body, i + 1, helper)

\* the constants of all pairs of functions fns[p..], functions in index order
RECURSIVE ModuleSites(_, _, _)
ModuleSites(fns, p, helper) ==
    IF p > Len(fns) THEN <<>>
    ELSE SitesOf(fns[p].body, 1, helper) \o ModuleSites(fns, p + 1, helper)

CountOps(body, ops) == Cardinality({p \in 1..Len(body) : body[p].op \in ops})

\* the three places a pair may stand at
AtEntry(body, p)     == p = 1
AfterOpen(body, p)   == p > 1 /\ body[p - 1].op \in OpenOps
BeforeBranch(body, p) == p + 2 <= Len(body) /\ body[p + 2].op \in BranchOps

PairsPlaced(body, helper) ==
    /\ IsPair(body, 1, helper)
    /\ \A p \in 1..Len(body) :
          /\ body[p].op \in OpenOps => IsPair(body, p + 1, helper)
          /\ body[p].op \in BranchOps => IsPair(body, p - 2, helper)
          /\ (body[p].op = "Call" /\ body[p].arg = helper) => IsPair(body, p - 1, helper)
    /\ \A p \in Pairs(body, helper) :
          Cardinality({r \in {"entry", "open", "branch"} :
                          \/ r = "entry" /\ AtEntry(body, p)
                          \/ r = "open" /\ AfterOpen(body, p)
                          \/ r = "branch" /\ BeforeBranch(body, p)}) = 1

C8_CopiedThrough ==
    [][pc = "instrument_branches" =>
          /\ Len(module'.functions) = Len(module.functions) + 1
          /\ ids'.helper = Len(module.functions)
          /\ Pairs(module'.functions[ids'.helper + 1].body, ids'.helper) = {}
          /\ Call(ids'.helper) \notin Range(module'.functions[ids'.helper + 1].body)
          /\ \A p \in 1..Len(module.functions) :
                IF module.functions[p].kind = "Local"
                THEN /\ Strip(module'.functions[p].body, 1, ids'.helper)
                          = module.functions[p].body
                     /\ Cardinality(Pairs(module'.functions[p].body, ids'.helper))
                          = 1 + CountOps(module.functions[p].body, OpenOps)
                              + CountOps(module.functions[p].body, BranchOps)
                     /\ [module'.functions[p] EXCEPT !.body = <<>>]
                          = [module.functions[p] EXCEPT !.body = <<>>]
                ELSE module'.functions[p] = module.functions[p]]_vars

\* C8 witness: a rewritten body that still holds its own `i32.const; call` of
\* another function next to the inserted pairs
C8_Witness ==
    /\ pc = "set_map"
    /\ \E p \in 1..Len(module.functions) :
          LET body == module.functions[p].body
          IN  /\ Cardinality(Pairs(body, ids.helper)) >= 1
              /\ \E q \in 1..(Len(body) - 1) :
                    /\ body[q].op = "I32Const"
                    /\ body[q + 1].op = "Call"
                    /\ body[q + 1].arg # ids.helper

\* the index of the helper in the returned module
HelperIndex == Len(ret.functions) - 1

\* C9: under Seed::Static(s) two runs on the same module bytes, history_size
\* and s emit the same constant at every site and the same output; the
\* constant at the k-th site of the traversal (functions in index order, sites
\* in instruction order) is the k-th draw of the generator seeded with s over
\* the range MAP_SIZE * history_size.
C9_StaticDeterministic ==
    (pc = "returned" /\ args.seed.kind = "Static") =>
        /\ \A d \in Range(done) : d.ret = ret
        /\ LET sites == ModuleSites(ret.functions, 1, HelperIndex)
           IN  sites = [k \in 1..Len(sites) |->
                          StdRngDraw(args.seed.s,
                                     AFL_COVERAGE_MAP_SIZE * args.history_size, k)]

\* C9 witness: the second run with a static seed has returned a module with
\* at least five sites
C9_Witness ==
    /\ pc = "returned"
    /\ args.seed.kind = "Static"
    /\ Len(done) = 1
    /\ Len(ModuleSites(ret.functions, 1, HelperIndex)) >= 5

----------------------------------------------------------------------------
(* Properties of SpecImports *)

\* the import a function index designates
ImportOf(m, fid) == m.imports[m.functions[fid + 1].import + 1]

IsImportedFn(m, fid) ==
    /\ fid \in 0..(Len(m.functions) - 1)
    /\ m.functions[fid + 1].kind = "Import"

\* the positions of the imports ic0.name
Ic0Imports(m, name) ==
    {i \in 1..Len(m.imports) :
        m.imports[i].module = API_VERSION_IC0 /\ m.imports[i].name = name}

\* the function index the import ic0.name has in m, -1 if m has none
Ic0FunctionIndex(m, name) ==
    MinOrZero({p \in 1..Len(m.functions) :
                 /\ m.functions[p].kind = "Import"
                 /\ ImportOf(m, p - 1).module = API_VERSION_IC0
                 /\ ImportOf(m, p - 1).name = name}) - 1

\* the imports a call appends to those of m0
Appended(m0) ==
    (IF Ic0Imports(m0, "msg_reply_data_append") = {}
     THEN <<"msg_reply_data_append">> ELSE <<>>)
    \o (IF Ic0Imports(m0, "msg_reply") = {} THEN <<"msg_reply">> ELSE <<>>)

\* the module the k-th recorded call returned
Returned(k) == IF k = Len(done) THEN module ELSE done[k + 1].module

\* one call, from module m0 to module m, with results d and r
EnsuredOnce(m0, m, d, r) ==
    /\ Cardinality(Ic0Imports(m, "msg_reply_data_append")) = 1
    /\ Cardinality(Ic0Imports(m, "msg_reply")) = 1
    /\ IsImportedFn(m, d) /\ IsImportedFn(m, r)
    /\ ImportOf(m, d).module = API_VERSION_IC0
    /\ ImportOf(m, d).name = "msg_reply_data_append"
    /\ ImportOf(m, d).kind = "func"
    /\ m.types[ImportOf(m, d).ty + 1] = FuncType(<<"i32", "i32">>, <<>>)
    /\ ImportOf(m, r).module = API_VERSION_IC0
    /\ ImportOf(m, r).name = "msg_reply"
    /\ ImportOf(m, r).kind = "func"
    /\ m.types[ImportOf(m, r).ty + 1] = FuncType(<<>>, <<>>)
    /\ Ic0FunctionIndex(m0, "msg_reply_data_append") # -1
          => d = Ic0FunctionIndex(m0, "msg_reply_data_append")
    /\ Ic0FunctionIndex(m0, "msg_reply") # -1
          => r = Ic0FunctionIndex(m0, "msg_reply")
    /\ Len(m.imports) = Len(m0.imports) + Len(Appended(m0))
    /\ SubSeq(m.imports, 1, Len(m0.imports)) = m0.imports
    /\ \A i \in 1..Len(Appended(m0)) :
          m.imports[Len(m0.imports) + i].name = Appended(m0)[i]

\* the cases in which a further call of canfuzz's ensure_ic0_imports can
\* return what the first returned: nothing was added, or the module has no
\* local function
IndicesSettled(m0) ==
    \/ pc = "canister_fuzzer"
    \/ Appended(m0) = <<>>
    \/ \A p \in 1..Len(m0.functions) : m0.functions[p].kind = "Import"

----------------------------------------------------------------------------
(* Properties of SpecIndices *)

\* the function that index i designates in module w (whose function index
\* space is laid out imports first): an import by its name, a local function
\* by its rank among the local functions
Designates(w, i) ==
    IF i \notin 0..(Len(w.functions) - 1) THEN <<"none", "", -1>>
    ELSE IF w.functions[i + 1].kind = "Import"
    THEN <<"import", ImportOf(w, i).name, -1>>
    ELSE <<"local", "", i - NumImportedFns(w)>>

IsCall(ins) == ins.op = "Call"

\* the functions the call instructions of a body designate, in order
CallTargets(w, body) ==
    LET cs == SelectSeq(body, IsCall)
    IN  [k \in 1..Len(cs) |-> Designates(w, cs[k].arg)]

NumLocalFns(w) == Len(w.functions) - NumImportedFns(w)

\* the body of the r-th local function (r from 0)
LocalBody(w, r) == w.functions[NumImportedFns(w) + r + 1].body

\* the rewritten body without what the rewrite put in: canfuzz's calls of the
\* helper (canister_fuzzer's inline slices contain no call)
InputPart(body) == IF pc = "returned" THEN Strip(body, 1, HelperIndex) ELSE body

RewriteReturned == pc \in {"returned", "cf_returned"}

CallsStable ==
    \A r \in 0..(NumLocalFns(args.wasm_bytes) - 1) :
        CallTargets(ret, InputPart(LocalBody(ret, r)))
            = CallTargets(args.wasm_bytes, LocalBody(args.wasm_bytes, r))

ExportsStable ==
    \A x \in 1..Len(args.wasm_bytes.exports) :
        /\ ret.exports[x].name = args.wasm_bytes.exports[x].name
        /\ Designates(ret, ret.exports[x].index)
              = Designates(args.wasm_bytes, args.wasm_bytes.exports[x].index)

CoverageExportAppended ==
    LET name == IF pc = "returned" THEN CoverageExportName ELSE CfCoverageExportName
    IN  Designates(ret, ExportIndex(ret, name))
            = <<"local", "", NumLocalFns(args.wasm_bytes)>>

\* C11: in the module either rewriter returns, every call operand and export
\* index of the input designates the function it designated in the input, and
\* the coverage export designates the function the rewriter appended, also
\* when ic0 imports had to be added and when the module imports a memory.
C11_IndicesStable ==
    RewriteReturned => CallsStable /\ ExportsStable /\ CoverageExportAppended

----------------------------------------------------------------------------
(* Properties of Spec: the process-wide coverage map *)

\* the static initialiser's buffer is allocation 0; each Box::leak is the next
Registered == COVERAGE_MAP.alloc >= 1

\* C12: once a call of instrument_wasm_for_fuzzing has registered the coverage
\* map, COVERAGE_MAP designates that buffer for good: no later call replaces
\* or reallocates it.
C12_AllocatedOnce == [][Registered => COVERAGE_MAP' = COVERAGE_MAP]_vars

\* C13: in every state, also before the first call and between calls with
\* different history sizes, the length of COVERAGE_MAP is 65536 * h for the
\* history_size h the coverage canister (the first call's module) is
\* instrumented with, which is the number of bytes its coverage export replies.
C13_MapProportional ==
    /\ [](ncalls = 1 /\ history_size_ok(args.history_size)
             => COVERAGE_MAP.len = MapBytes(args.history_size))
    /\ [][ncalls >= 2 => COVERAGE_MAP'.len = COVERAGE_MAP.len]_vars

----------------------------------------------------------------------------
(* Properties of SpecRegistry: the canister registry                         *)

\* the entries of a registry that are marked Coverage
CoverageEntries(canisters) == {k \in 1..Len(canisters) : canisters[k].ty = Coverage}

BuildSucceeded == pc \in {"built", "panic_lookup"}
BuildFailed == pc = "panic_coverage"

\* the role the calls made on a CanisterBuilder ask for
RoleAsked(role_calls) ==
    IF role_calls # <<>> /\ role_calls[Len(role_calls)] = "as_coverage"
    THEN Coverage ELSE Support

\* C14: FuzzerBuilder::build succeeds exactly when the registry holds exactly
\* one Coverage entry; with none or with two it fails and no FuzzerState
\* exists; a CanisterBuilder's entry is Support unless as_coverage was the last
\* role call made on it.
C14_ExactlyOneCoverage ==
    /\ BuildSucceeded => /\ fuzzer_state # NoState
                         /\ Cardinality(CoverageEntries(fuzzer_builder.canisters)) = 1
                         /\ Cardinality(CoverageEntries(fuzzer_state.canisters)) = 1
    /\ BuildFailed => /\ fuzzer_state = NoState
                      /\ Cardinality(CoverageEntries(fuzzer_builder.canisters)) # 1
    /\ pc \in {"builder", "panic_wasm_path"} => fuzzer_state = NoState
    /\ canister_builder # NoBuilder =>
         /\ canister_builder.ty = RoleAsked(canister_builder.role_calls)
         /\ canister_builder.built =>
              fuzzer_builder.canisters[Len(fuzzer_builder.canisters)].ty
                = RoleAsked(canister_builder.role_calls)

C14_Witness ==
    /\ pc = "built"
    /\ Len(fuzzer_state.canisters) = 2
    /\ canister_builder.role_calls = <<"as_support", "as_coverage">>
    /\ fuzzer_state.canisters[1].ty = Support

\* the ids the registry's entries hold (<<>> before a FuzzerState exists)
AssignedIds ==
    IF fuzzer_state = NoState THEN <<>>
    ELSE [k \in 1..Len(fuzzer_state.canisters) |-> fuzzer_state.canisters[k].id]

\* canister `id` is installed in the FuzzerState's state machine
Installed(id) ==
    /\ fuzzer_state.state # NoPic
    /\ id < Len(fuzzer_state.state.canisters)
    /\ fuzzer_state.state.canisters[id + 1].module # NoModule

\* C15: an entry's assigned id is unset until its canister is installed, and
\* once set it is never cleared or changed, whatever sequence of init_state,
\* setup_canisters and lookups follows.
C15_IdSetOnce ==
    /\ [](\A k \in 1..Len(AssignedIds) :
            AssignedIds[k] # NoId => Installed(AssignedIds[k]))
    /\ [][\A k \in 1..Len(AssignedIds) :
            AssignedIds[k] # NoId => AssignedIds'[k] = AssignedIds[k]]_vars

\* position of the first event <<what, id>> in the state machine's log, 0 if none
EventAt(what, id) ==
    MinOrZero({i \in 1..Len(fuzzer_state.state.log) :
                 fuzzer_state.state.log[i] = <<what, id>>})

\* canister `id` was created, given cycles, had its image read, was installed
\* and had its id recorded, in this order
SetUpInOrder(id) ==
    /\ 0 < EventAt("create_canister", id)
    /\ EventAt("create_canister", id) < EventAt("add_cycles", id)
    /\ EventAt("add_cycles", id) < EventAt("read_canister_bytes", id)
    /\ EventAt("read_canister_bytes", id) < EventAt("install_canister", id)
    /\ EventAt("install_canister", id) < EventAt("set_id", id)

\* C16: setup handles the entries in registration order, and for each creates
\* the canister, adds cycles, reads the Wasm image, installs it with the init
\* arguments and then records the id; the Coverage entry's image goes through
\* the rewriter, so the installed coverage canister has the coverage export.
C16_CoverageInstrumented ==
    \A k \in 1..Len(AssignedIds) :
       AssignedIds[k] # NoId /\ Installed(AssignedIds[k]) =>
          /\ SetUpInOrder(AssignedIds[k])
          /\ fuzzer_state.state.canisters[AssignedIds[k] + 1].init_args
               = fuzzer_state.canisters[k].init_args
          /\ \A j \in 1..(k - 1) : AssignedIds[j] < AssignedIds[k]
          /\ fuzzer_state.canisters[k].ty = Coverage =>
               ExportIndex(fuzzer_state.state.canisters[AssignedIds[k] + 1].module,
                           CoverageExportName) >= 0

----------------------------------------------------------------------------
(* Properties of SpecLoop: exit kinds, objective, order, snapshots           *)

CrashCodes == {"CanisterTrapped", "CanisterCalledTrap"}
OomCodes == {"CanisterMemoryAccessLimitExceeded", "InsufficientMemoryAllocation",
             "CanisterOutOfMemory", "CanisterWasmMemoryLimitExceeded"}
TimeoutCodes == {"CanisterInstructionLimitExceeded"}

\* an execute has classified a simulator result in this iteration
Classified == IF fuzz = NoFuzz THEN FALSE ELSE fuzz.result # NoResult

\* C17: parse_canister_result_for_trap is total: a reply is Ok; a trap or a
\* called trap is Crash; the four memory errors are Oom; an exceeded instruction
\* limit is Timeout; every other error is Ok.
C17_TotalMapping ==
    Classified =>
      /\ fuzz.exit_kind \in {ExitKindOk, ExitKindCrash, ExitKindOom, ExitKindTimeout}
      /\ fuzz.exit_kind = ExitKindOk <=>
           \/ fuzz.result.ok
           \/ fuzz.result.error_code \notin CrashCodes \cup OomCodes \cup TimeoutCodes
      /\ fuzz.exit_kind = ExitKindCrash <=>
           ~fuzz.result.ok /\ fuzz.result.error_code \in CrashCodes
      /\ fuzz.exit_kind = ExitKindOom <=>
           ~fuzz.result.ok /\ fuzz.result.error_code \in OomCodes
      /\ fuzz.exit_kind = ExitKindTimeout <=>
           ~fuzz.result.ok /\ fuzz.result.error_code \in TimeoutCodes

C17_Witness ==
    /\ Classified
    /\ fuzz.result.error_code = "CanisterInstructionLimitExceeded"
    /\ fuzz.exit_kind = ExitKindTimeout

\* the steps taken so far in the current iteration end with `step`
JustDid(step) ==
    IF fuzz = NoFuzz THEN FALSE
    ELSE fuzz.order # <<>> /\ fuzz.order[Len(fuzz.order)] = step

\* C18: the objective is the OR of Crash, Timeout and Oom: an input is promoted
\* to the crashes corpus exactly when its exit kind is one of the three, and
\* never when it is Ok.
C18_ObjectiveIsOr ==
    JustDid("objective") \/ JustDid("feedback") =>
      (fuzz.promoted <=>
         fuzz.exit_kind \in {ExitKindCrash, ExitKindTimeout, ExitKindOom})

IterationOrder ==
    <<"setup", "execute", "set_coverage_map", "cleanup", "objective", "feedback">>

\* C19: within an iteration the steps are setup, execute, coverage read-back,
\* feedback, in this order; one input is in flight at a time; the feedback never
\* evaluates a map that was read before the current execute.
C19_IterationOrder ==
    fuzz # NoFuzz =>
      /\ Len(fuzz.order) <= Len(IterationOrder)
      /\ fuzz.order = SubSeq(IterationOrder, 1, Len(fuzz.order))
      /\ fuzz.in_flight \in 0..1
      /\ fuzz.in_flight = 1 <=> fuzz.at \in {"setup", "execute", "set_coverage_map", "cleanup"}
      /\ JustDid("feedback") =>
           /\ fuzz.evaluated.read \in {0, fuzz.iter}
           /\ fuzz.evaluated.from \subseteq {0, fuzz.iter}

C19_Witness ==
    /\ JustDid("feedback")
    /\ fuzz.iter = 2
    /\ fuzz.evaluated.read = 2
    /\ 2 \in fuzz.evaluated.from

\* C20: after setup, at the start of every execute, the state machine is in the
\* state of the baseline snapshot taken at the end of init: canister state,
\* queued messages and simulated time show no effect of an earlier execution.
C20_SnapshotRestored ==
    (IF fuzz = NoFuzz THEN FALSE ELSE fuzz.at = "execute") =>
      SimState(fuzzer_state.state) = fuzz.baseline

----------------------------------------------------------------------------
(* Properties of SpecValue: the per-kind mutation rules                     *)

\* the call has returned a value / has ended, with a value or a panic
ValueReturned == IF mutation.out = Pending THEN FALSE ELSE mutation.out # Panic
ValueOut == mutation.out.out
CaseOf(kind) == TheCase.val.k = kind /\ TheCase.depth <= MaxDepth
CaseType == trace_type(MethodEnv, TheCase.ty)

\* the value n containers below v, through first children
Missing == [missing |-> TRUE]
RECURSIVE Descend(_, _)
Descend(v, n) ==
    IF n = 0 THEN v
    ELSE CASE v.k = "Record" ->
                IF v.fields = <<>> THEN Missing ELSE Descend(v.fields[1].val, n - 1)
           [] v.k = "Vec" ->
                IF v.items = <<>> THEN Missing ELSE Descend(v.items[1], n - 1)
           [] v.k \in {"Variant", "Opt"} -> Descend(v.val, n - 1)
           [] OTHER -> Missing

\* C25: mutate_value called with depth > 20 leaves the value unchanged, every
\* descent into a container (Vec element, Record field, Variant payload, Opt
\* payload) counts one level, so that no value nested more than 20 containers
\* below the top-level argument is modified.
C25_DepthBound ==
    ValueReturned =>
      /\ TheCase.depth > MaxDepth => ValueOut = TheCase.val
      /\ Len(TheCase.kinds) + TheCase.depth > MaxDepth =>
            Descend(ValueOut, Len(TheCase.kinds))
              \in {Missing, Descend(TheCase.val, Len(TheCase.kinds))}

\* C26: a Variant mutation either switches the tag (the variant ends with a
\* different declared tag, its field id and tag index name the same declared
\* field, its payload is a generated value of that field's type, and a failed
\* generation leaves the variant unchanged) or keeps tag and index and mutates
\* only the payload.
VariantSwitched(v0, v1, variant_fields) ==
    /\ v1.id # v0.id
    /\ v1.idx + 1 \in 1 .. Len(variant_fields)
    /\ variant_fields[v1.idx + 1].id = v1.id
    /\ v1.val \in any_value(MethodEnv, variant_fields[v1.idx + 1].ty)
VariantPayloadMutated(v0, v1, variant_fields, depth) ==
    /\ v1.id = v0.id
    /\ v1.idx = v0.idx
    /\ \/ v1.val = v0.val
       \/ \E f \in find(variant_fields, v0.id) :
             v1.val \in Outs(mutate_value(v0.val, f.ty, MethodEnv, depth + 1))
PayloadCannotPanic(v) == v.k \in {"Bool"} \cup DOMAIN PrimTypes
C26_VariantRule ==
    (/\ mutation.out # Pending
     /\ CaseOf("Variant")
     /\ CaseType.t = "Variant"
     /\ PayloadCannotPanic(TheCase.val.val)) =>
       IF mutation.out = Panic THEN FALSE
       ELSE IF ValueOut.k # "Variant" THEN FALSE
       ELSE \/ VariantSwitched(TheCase.val, ValueOut, CaseType.fields)
            \/ VariantPayloadMutated(TheCase.val, ValueOut, CaseType.fields,
                                     TheCase.depth)

\* C27: mutate_nat always produces a natural number: one of val + 1,
\* max(val - 1, 0), u64::MAX, 0, r + val, r - val clamped at 0, r * val; it
\* never yields a negative value and never fails.
NatResults(val) ==
    {val + 1, IF val > 0 THEN val - 1 ELSE 0, U64_MAX, 0}
    \cup UNION {{r + val, IF r >= val THEN r - val ELSE 0, r * val}
                : r \in RandomNat}
C27_NatStaysNatural ==
    (mutation.out # Pending /\ CaseOf("Nat")) =>
       IF mutation.out = Panic THEN FALSE
       ELSE /\ ValueOut.k = "Nat"
            /\ ValueOut.n >= 0
            /\ ValueOut.n \in NatResults(TheCase.val.n)

\* C28: a Record mutation keeps the number, the order and the ids of the
\* fields and changes at most one field; the changed field is the result of
\* mutate_value on that field under the type the record type declares for its
\* id, one level deeper; an empty record, and a chosen field whose id the
\* declared type lacks, stay unchanged.
ChangedFields(f0, f1) == {i \in 1 .. Len(f0) : f1[i].val # f0[i].val}
C28_RecordOneField ==
    (ValueReturned /\ CaseOf("Record")) =>
       /\ ValueOut.k = "Record"
       /\ Len(ValueOut.fields) = Len(TheCase.val.fields)
       /\ \A i \in 1 .. Len(TheCase.val.fields) :
             ValueOut.fields[i].id = TheCase.val.fields[i].id
       /\ Cardinality(ChangedFields(TheCase.val.fields, ValueOut.fields)) <= 1
       /\ \A i \in ChangedFields(TheCase.val.fields, ValueOut.fields) :
             /\ CaseType.t = "Record"
             /\ \E f \in find(CaseType.fields, TheCase.val.fields[i].id) :
                   ValueOut.fields[i].val
                     \in Outs(mutate_value(TheCase.val.fields[i].val, f.ty,
                                           MethodEnv, TheCase.depth + 1))

C28_Witness ==
    /\ ValueReturned
    /\ CaseOf("Record")
    /\ Len(TheCase.val.fields) = 2
    /\ ChangedFields(TheCase.val.fields, ValueOut.fields) = {2}
    /\ TheCase.ty = VarT("Account")

\* C29: mutate_vec on a vector of n > 0 elements does exactly one of: remove
\* one element (n - 1 left, the others unchanged and in order), append a copy
\* of an element and mutate only the copy (n + 1, the first n unchanged),
\* mutate one element where it is (n); an empty vector stays empty.
VecRemoved(v0, v1) ==
    /\ Len(v1) = Len(v0) - 1
    /\ \E idx \in 1 .. Len(v0) : v1 = remove(v0, idx)
VecCopied(v0, v1, item_ty, depth) ==
    /\ Len(v1) = Len(v0) + 1
    /\ SubSeq(v1, 1, Len(v0)) = v0
    /\ \E idx \in 1 .. Len(v0) :
          v1[Len(v1)] \in Outs(mutate_value(v0[idx], item_ty, MethodEnv, depth + 1))
VecMutated(v0, v1, item_ty, depth) ==
    /\ Len(v1) = Len(v0)
    /\ \E idx \in 1 .. Len(v0) :
          /\ \A j \in 1 .. Len(v0) : j # idx => v1[j] = v0[j]
          /\ v1[idx] \in Outs(mutate_value(v0[idx], item_ty, MethodEnv, depth + 1))
C29_VecOneOfThree ==
    (ValueReturned /\ CaseOf("Vec") /\ CaseType.t = "Vec") =>
       /\ ValueOut.k = "Vec"
       /\ IF TheCase.val.items = <<>> THEN ValueOut.items = <<>>
          ELSE \/ VecRemoved(TheCase.val.items, ValueOut.items)
               \/ VecCopied(TheCase.val.items, ValueOut.items, CaseType.item,
                            TheCase.depth)
               \/ VecMutated(TheCase.val.items, ValueOut.items, CaseType.item,
                             TheCase.depth)

C29_Witness ==
    /\ ValueReturned
    /\ CaseOf("Vec")
    /\ Len(TheCase.val.items) = 2
    /\ Len(ValueOut.items) = 3
    /\ ValueOut.items[3] \notin {ValueOut.items[1], ValueOut.items[2]}

----------------------------------------------------------------------------
(* Properties of SpecMutate: results of mutate and what they do to the input *)

MutateCalled == mutation.calls > 0
DecodedTypes(bytes) == from_bytes(bytes).out.types

\* C21: mutate never panics: for every input that decodes and passes the
\* subtype check, every declared type and every random choice it returns
\* Mutated or Skipped (empty and multi-byte Text, empty Blob, a Nat above the
\* random operand, Service and Func values included).
C21_NeverPanics ==
    MutateCalled => mutation.result \in {"Mutated", "Skipped"}

\* C22: whenever mutate returns Skipped the input bytes are exactly those it
\* was given; the input is overwritten only on a path that returns Mutated.
C22_SkippedLeavesInput ==
    MutateCalled =>
       /\ mutation.result = "Skipped" => mutation.input = mutation.before
       /\ mutation.input # mutation.before => mutation.result = "Mutated"

C22_Witness ==
    /\ mutation.calls = 2
    /\ mutation.result = "Skipped"
    /\ mutation.path = "existing"
    /\ mutation.before # Garbage
    /\ mutation.input = mutation.before
    /\ from_bytes(mutation.before) = Err

\* C23: when mutate returns Mutated, the new input decodes, holds as many
\* arguments as the method declares, and each argument's type is a subtype of
\* the declared type.
C23_TypePreserved ==
    (MutateCalled /\ mutation.result = "Mutated") =>
       IF from_bytes(mutation.input) = Err THEN FALSE
       ELSE /\ Len(DecodedTypes(mutation.input)) = Len(mutator.arg_types)
            /\ \A i \in 1 .. Len(mutator.arg_types) :
                  subtype(mutator.env, DecodedTypes(mutation.input)[i],
                          mutator.arg_types[i])

\* what C24 says of the mutator's two modes, the number of argument indices
\* handed to mutate_value on the decoding path left open
EnabledWhenGiven ==
    mutator # NoMutator => (mutator.is_enabled <=> mutation.candid_def # NoCandidDef)
DisabledOnlyGenerates ==
    (MutateCalled /\ ~mutator.is_enabled) =>
       /\ mutation.indices = {}
       /\ \/ mutation.result = "Skipped" /\ mutation.input = mutation.before
          \/ /\ mutation.result = "Mutated"
             /\ mutation.path = "generation"
             /\ mutation.input
                  \in {to_bytes(a).out : a \in any(mutator.env, mutator.arg_types)}
OnExistingPath ==
    IF mutator = NoMutator THEN FALSE
    ELSE /\ MutateCalled
         /\ mutator.is_enabled
         /\ mutation.path = "existing"
         /\ mutation.result = "Mutated"
OthersUnchanged ==
    /\ Len(mutation.input.args) = Len(mutation.before.args)
    /\ \A j \in 1 .. Len(mutation.before.args) :
          j \notin mutation.indices =>
             mutation.input.args[j] = idl_serialize(mutation.before.args[j])
EnabledPaths ==
    (IF mutator = NoMutator THEN FALSE ELSE MutateCalled /\ mutator.is_enabled) =>
       mutation.path \in {"generation", "existing"}

\* C24 as stated: the mutator is enabled exactly when it was given an
\* interface file and a method; disabled, it returns Skipped or replaces the
\* whole input by a generated blob; enabled, it generates or decodes, and on
\* the decoding path exactly one argument index is passed to mutate_value while
\* all other arguments are re-encoded unchanged.
C24_ExactlyOneIndex ==
    /\ EnabledWhenGiven
    /\ DisabledOnlyGenerates
    /\ EnabledPaths
    /\ OnExistingPath => Cardinality(mutation.indices) = 1 /\ OthersUnchanged

\* C24, amended: on the decoding path one argument index is passed to
\* mutate_value when the decoded argument list is not empty and none when it
\* is empty; the other arguments are re-encoded unchanged.
C24_AtMostOneIndex ==
    /\ EnabledWhenGiven
    /\ DisabledOnlyGenerates
    /\ EnabledPaths
    /\ OnExistingPath =>
          /\ Cardinality(mutation.indices)
               = (IF mutation.before.args = <<>> THEN 0 ELSE 1)
          /\ OthersUnchanged

C24_Witness ==
    /\ OnExistingPath
    /\ Len(mutation.before.args) = 2
    /\ mutation.indices = {2}
    /\ mutation.input.args[2] # mutation.before.args[2]
    /\ mutation.input.args[1] = mutation.before.args[1]

----------------------------------------------------------------------------
(* Properties of SpecHistory: the helper writes inside the coverage region  *)

\* the curr_loc constants the rewriter put into the installed canister
CurrLocs == Range(ModuleSites(canister.functions, 1,
                              EncodedIndex(module, ids.helper)))
InRegion(a) ==
    /\ a >= MemPtr(gvals)
    /\ a < MemPtr(gvals) + AFL_COVERAGE_MAP_SIZE * args.history_size

\* C30: for every history size h in {1, 2, 4, 8} every curr_loc constant the
\* rewriter emits lies in [0, MAP_SIZE * h), every prev_loc global stays in
\* [0, MAP_SIZE * h / 2), and so every byte the helper writes, at
\* key = mem_ptr + (curr_loc XOR all prev_loc), lies in
\* [mem_ptr, mem_ptr + MAP_SIZE * h), the region the coverage export replies
\* with and zeroes.
C30_WritesInsideRegion ==
    /\ CurrLocs # {}
    /\ \A c \in CurrLocs : c >= 0 /\ c < AFL_COVERAGE_MAP_SIZE * args.history_size
    /\ \A i \in 1 .. Len(ids.prev_loc) :
          /\ PrevLoc(gvals)[i] >= 0
          /\ PrevLoc(gvals)[i] < (AFL_COVERAGE_MAP_SIZE * args.history_size) \div 2
    /\ \A c \in CurrLocs : InRegion(Key(c, gvals))
    /\ \A e \in Range(last.trace) : e.op = "i32.store8" => InRegion(e.addr)
    /\ \A a \in DOMAIN mem : InRegion(a)

C30_Witness ==
    /\ args.history_size = 8
    /\ last.kind = "fuzz"
    /\ PrevLoc(gvals)[8] > 0
    /\ \E e \in Range(last.trace) :
          /\ e.op = "i32.store8"
          /\ e.addr >= AFL_COVERAGE_MAP_SIZE
          /\ e.addr \notin CurrLocs

====
